---- MODULE Spec2Model ----
(***************************************************************************)
(* Model of the join state of the streaming hash join:                     *)
(*   src/src/stream/src/executor/managed_state/join/mod.rs  (JoinHashMap)  *)
(* together with the collaborators it drives (state table, degree table,   *)
(* executor cache, join entry, order-key zip).                             *)
(*                                                                         *)
(* Rows are tuples of datums; a datum is an Option: Some(v) or None (NULL).*)
(* A state row is <<join key, stream pk>>; a degree row is the order key   *)
(* of a state row followed by the degree column.                           *)
(***************************************************************************)
EXTENDS Integers, Sequences, FiniteSets, TLC

\* ------------------------------------------------------------------ bounds
\* largest degree a pre-seeded degree row carries / inc_degree is driven to
MaxDegree == 1
\* take_state calls per JoinHashMap
MaxLookups == 3
\* barriers (epochs) the model runs through
MaxEpoch == 2
\* operations one run of a single JoinHashMap is driven through
MaxSteps == 4
\* steps of the join operator in one run
MaxJoinSteps == 4
\* width in bits of the degree column in the model (i64 / u64 in the code)
DegreeBits == 4
\* messages a source reader takes from its consumer in one batch
MAX_CHUNK_SIZE == 2
\* messages in the partition a Kafka split reads
LogEnd == 4
\* batches a ConnectorSourceReader is driven through
MaxBatches == 2

\* ------------------------------------------------------------------ datums
Some(v) == <<v>>
None == <<>>
Unwrap(d) == d[1]

\* the two join keys of the model and the two stream pks below each
Keys == {1, 2}
Pks == {1, 2}

\* column layout of a state row <<k, pk>> and of a degree row <<k, pk, degree>>
join_key_indices == <<1>>
state_pk_indices == <<2>>
state_order_key_indices == <<1, 2>>
degree_order_key_indices == <<1, 2>>

MkRow(k, pk) == <<Some(k), Some(pk)>>
AllRows == {MkRow(k, pk) : k \in Keys, pk \in Pks}
JoinKey(k) == <<Some(k)>>
AllJoinKeys == {JoinKey(k) : k \in Keys}

\* Row2::project
Project(row, indices) == [i \in 1..Len(indices) |-> row[indices[i]]]

\* Row2::chain
Chain(r1, r2) == r1 \o r2

\* ------------------------------------------------------- encodings
RECURSIVE MemcmpSerialize(_)
\* memcomparable encoding of a row: per datum a null tag, then the value with
\* its sign bit flipped (one byte per value in the model)
MemcmpSerialize(row) ==
    IF row = <<>> THEN <<>>
    ELSE (IF Head(row) = None THEN <<0>> ELSE <<1, (Unwrap(Head(row)) + 128) % 256>>)
         \o MemcmpSerialize(Tail(row))

RECURSIVE BytesLess(_, _)
\* bytewise (memcmp) order of two byte strings
BytesLess(a, b) ==
    IF b = <<>> THEN FALSE
    ELSE IF a = <<>> THEN TRUE
    ELSE IF Head(a) # Head(b) THEN Head(a) < Head(b)
    ELSE BytesLess(Tail(a), Tail(b))

IsPrefix(p, s) == Len(p) <= Len(s) /\ SubSeq(s, 1, Len(p)) = p

RECURSIVE ValueSerialize(_)
\* value encoding of a row (CompactedRow): a presence byte, then the value
ValueSerialize(row) ==
    IF row = <<>> THEN <<>>
    ELSE (IF Head(row) = None THEN <<0>> ELSE <<1, Unwrap(Head(row))>>)
         \o ValueSerialize(Tail(row))

RECURSIVE ValueDeserialize(_)
\* CompactedRow::deserialize
ValueDeserialize(bytes) ==
    IF bytes = <<>> THEN <<>>
    ELSE IF Head(bytes) = 0 THEN <<None>> \o ValueDeserialize(Tail(bytes))
    ELSE <<Some(bytes[2])>> \o ValueDeserialize(Tail(Tail(bytes)))

\* a cast of the degree to a signed integer one bit narrower than the column
AsI64_narrower(d) ==
    IF d % 2^(DegreeBits - 1) >= 2^(DegreeBits - 2)
    THEN (d % 2^(DegreeBits - 1)) - 2^(DegreeBits - 1)
    ELSE d % 2^(DegreeBits - 1)
\* `degree as i64`: reinterpret the unsigned degree as a signed integer
AsI64(d) == IF d >= 2^(DegreeBits - 1) THEN d - 2^DegreeBits ELSE d
\* `into_int64() as u64`: reinterpret the signed column as unsigned
AsU64(i) == IF i < 0 THEN i + 2^DegreeBits ELSE i

\* fn build_degree_row(order_key, degree)
build_degree_row(order_key, degree) == Chain(order_key, <<Some(AsI64(degree))>>)

\* ------------------------------------------------------- JoinRow
\* JoinRow::new
JoinRow(row, degree) == [row |-> row, degree |-> degree]

\* to_table_rows that builds the degree row with degree 0
to_table_rows_zero_degree(join_row, order_key_indices) ==
    [row |-> join_row.row,
     degree |-> build_degree_row(Project(join_row.row, order_key_indices), 0)]

\* JoinRow::to_table_rows: the row, and its degree row for the degree table
to_table_rows(join_row, order_key_indices) ==
    [row |-> join_row.row,
     degree |-> build_degree_row(Project(join_row.row, order_key_indices),
                                 join_row.degree)]

\* JoinRow::encode
Encode(join_row) ==
    [compacted_row |-> ValueSerialize(join_row.row), degree |-> join_row.degree]

\* EncodedJoinRow::decode
Decode(encoded) ==
    [row |-> ValueDeserialize(encoded.compacted_row), degree |-> encoded.degree]

\* ------------------------------------------------------- JoinEntryState
\* An entry is a map pk bytes -> EncodedJoinRow (a function on a finite set).
EmptyEntry == <<>>
EntryInsert(e, pk, v) == [p \in (DOMAIN e) \cup {pk} |-> IF p = pk THEN v ELSE e[p]]
EntryRemove(e, pk) == [p \in (DOMAIN e) \ {pk} |-> e[p]]
EntryLen(e) == Cardinality(DOMAIN e)

RECURSIVE SortByBytes(_)
\* the byte strings of a set in ascending memcmp order
SortByBytes(S) ==
    IF S = {} THEN <<>>
    ELSE LET m == CHOOSE x \in S : \A y \in S \ {x} : BytesLess(x, y)
         IN  <<m>> \o SortByBytes(S \ {m})

\* JoinEntryState::iter / values_mut: pk-ascending
EntryIter(e) == LET ks == SortByBytes(DOMAIN e) IN [i \in 1..Len(ks) |-> <<ks[i], e[ks[i]]>>]

\* ------------------------------------------------------- StateTable
\* A table is [pk_indices, committed, mem_table, epoch]: committed is the set
\* of published rows, mem_table the writes buffered for the current epoch,
\* one per key (the latest wins).
TableKey(t, row) == MemcmpSerialize(Project(row, t.pk_indices))

\* the virtual nodes of the key space; a vnode bitmap is the set of the vnodes
\* a table instance owns
AllVnodes == {0, 1}
\* the vnode of a row: the hash of its distribution key (vnode 0 without one)
VnodeOf(t, row) ==
    IF t.dist_key_indices = <<>> \/ row[t.dist_key_indices[1]] = None THEN 0
    ELSE Unwrap(row[t.dist_key_indices[1]]) % Cardinality(AllVnodes)

\* a table distributed by its first column, owning every vnode
NewTable(pk_indices, rows) ==
    [pk_indices |-> pk_indices, committed |-> rows, mem_table |-> {}, epoch |-> 0,
     dist_key_indices |-> <<1>>, vnodes |-> AllVnodes]

\* committed rows overlaid with the buffered writes, of every vnode
TableAll(t) ==
    {r \in t.committed : \A w \in t.mem_table : w.key # TableKey(t, r)}
    \cup {w.row : w \in {x \in t.mem_table : x.op = "insert"}}

\* rows a read observes: those of the vnodes the table owns
TableView(t) == {r \in TableAll(t) : VnodeOf(t, r) \in t.vnodes}

BufferWrite(t, op, row) ==
    [t EXCEPT !.mem_table =
        {w \in @ : w.key # TableKey(t, row)}
        \cup {[key |-> TableKey(t, row), op |-> op, row |-> row]}]

StateTableInsert(t, row) == BufferWrite(t, "insert", row)
StateTableDelete(t, row) == BufferWrite(t, "delete", row)
\* update(old, new): delete(old) + insert(new), one write when the keys agree
StateTableUpdate(t, old, new) == BufferWrite(BufferWrite(t, "delete", old), "insert", new)

\* a commit that publishes the epoch's writes as the whole table
StateTableCommit_replacing(t, next_epoch) ==
    [t EXCEPT !.committed = {w.row : w \in {x \in t.mem_table : x.op = "insert"}},
              !.mem_table = {}, !.epoch = next_epoch]

\* commit(next): publish the buffered writes and move to the next epoch
StateTableCommit(t, next_epoch) ==
    [t EXCEPT !.committed = TableAll(t), !.mem_table = {}, !.epoch = next_epoch]

\* update_vnode_bitmap(new): [table, previous]
StateTableUpdateVnodeBitmap(t, new_vnodes) ==
    [table |-> [t EXCEPT !.vnodes = new_vnodes], previous |-> t.vnodes]

\* a failed commit that keeps the buffered writes
StateTableCommitFailed_keeping_writes(t) == t

\* a failed commit: the buffered writes are discarded, the epoch stays
StateTableCommitFailed(t) == [t EXCEPT !.mem_table = {}]

\* iter_key_and_val(prefix): <<key, row>> pairs in ascending key order
iter_key_and_val(t, prefix) ==
    LET rows == {r \in TableView(t) : IsPrefix(prefix, r)}
        ks == SortByBytes({TableKey(t, r) : r \in rows})
    IN  [i \in 1..Len(ks) |-> <<ks[i], CHOOSE r \in rows : TableKey(t, r) = ks[i]>>]

\* iter_with_pk_prefix(prefix): the rows alone, same order
iter_with_pk_prefix(t, prefix) ==
    LET kv == iter_key_and_val(t, prefix) IN [i \in 1..Len(kv) |-> kv[i][2]]

RECURSIVE zip_by_order_key(_, _)
\* merge of two key-ordered streams that yields only the pairs with equal keys
zip_by_order_key(s1, s2) ==
    IF s1 = <<>> \/ s2 = <<>> THEN <<>>
    ELSE IF BytesLess(Head(s1)[1], Head(s2)[1]) THEN zip_by_order_key(Tail(s1), s2)
    ELSE IF BytesLess(Head(s2)[1], Head(s1)[1]) THEN zip_by_order_key(s1, Tail(s2))
    ELSE <<<<Head(s1)[2], Head(s2)[2]>>>> \o zip_by_order_key(Tail(s1), Tail(s2))

\* ------------------------------------------------------- JoinHashMap
\* HashValueWrapper(Option<HashValueType>): <<entry>> is Some, <<>> is None.
\* HashValueWrapper::MESSAGE (the code quotes Some in backquotes)
MESSAGE == "the state should always be Some"
DEGREE_NULL == "degree should not be NULL"
DEGREE_UNDERFLOW == "Tried to decrement zero join row degree"

\* JoinHashMapMetrics::new
NewMetrics ==
    [lookup_miss_count |-> 0, total_lookup_count |-> 0,
     join_lookup_miss_count |-> 0, join_total_lookup_count |-> 0]

\* JoinHashMap::new: an empty cache over the two table handles
NewJoinHashMap(state_rows, degree_rows, need_degree_table) ==
    [inner |-> <<>>,
     state |-> NewTable(state_order_key_indices, state_rows),
     degree_state |-> NewTable(degree_order_key_indices, degree_rows),
     need_degree_table |-> need_degree_table, null_matched |-> <<FALSE>>,
     metrics |-> NewMetrics]

\* a null_matched accessor that reports every bit set
null_matched_all_set(h) == [i \in DOMAIN h.null_matched |-> TRUE]

\* JoinHashMap::null_matched: one bit per join key column, set when NULL in
\* that column matches NULL
null_matched(h) == h.null_matched

\* pk of a state row as the cache entry keys it
PkOf(row) == MemcmpSerialize(Project(row, state_pk_indices))

RECURSIVE InsertZipped_null_as_zero(_, _)
\* the zipped loop reading a NULL degree column as 0 instead of aborting
InsertZipped_null_as_zero(pairs, acc) ==
    IF pairs = <<>> THEN acc
    ELSE LET row == Head(pairs)[1]
             degree == Head(pairs)[2]
             degree_i64 == degree[Len(degree)]
             d == IF degree_i64 = None THEN 0 ELSE AsU64(Unwrap(degree_i64))
         IN  InsertZipped_null_as_zero(Tail(pairs),
                [acc EXCEPT !.entry = EntryInsert(@, PkOf(row), Encode(JoinRow(row, d)))])

RECURSIVE InsertZipped(_, _)
\* the for_await loop over the zipped pairs: insert each, abort on a NULL degree
InsertZipped(pairs, acc) ==
    IF pairs = <<>> THEN acc
    ELSE LET row == Head(pairs)[1]
             degree == Head(pairs)[2]
             degree_i64 == degree[Len(degree)]
         IN  IF degree_i64 = None
             THEN [acc EXCEPT !.panic = DEGREE_NULL]
             ELSE InsertZipped(Tail(pairs),
                    [acc EXCEPT !.entry = EntryInsert(@, PkOf(row),
                        Encode(JoinRow(row, AsU64(Unwrap(degree_i64)))))])

RECURSIVE InsertRows(_, _)
\* the for_await loop of the degree-less branch
InsertRows(rows, entry) ==
    IF rows = <<>> THEN entry
    ELSE InsertRows(Tail(rows),
            EntryInsert(entry, PkOf(Head(rows)), Encode(JoinRow(Head(rows), 0))))

\* fetch_cached_state that never reads the degree table
fetch_state_only(h, key) ==
    [entry |-> InsertRows(iter_with_pk_prefix(h.state, key), EmptyEntry),
     panic |-> "", reads |-> {"state"}]

\* fetch_cached_state that zips with the degree table whatever the flag says
fetch_always_zip(h, key) ==
    InsertZipped(zip_by_order_key(iter_key_and_val(h.state, key),
                                  iter_key_and_val(h.degree_state, key)),
                 [entry |-> EmptyEntry, panic |-> "", reads |-> {"state", "degree"}])

\* fetch_cached_state with the need_degree_table test inverted
fetch_flag_inverted(h, key) ==
    IF h.need_degree_table THEN fetch_state_only(h, key) ELSE fetch_always_zip(h, key)

\* JoinHashMap::fetch_cached_state: [entry, panic, reads]
fetch_cached_state(h, key) ==
    IF h.need_degree_table
    THEN LET table_data == iter_key_and_val(h.state, key)
             degree_table_data == iter_key_and_val(h.degree_state, key)
             zipped == zip_by_order_key(table_data, degree_table_data)
         IN  InsertZipped(zipped,
                [entry |-> EmptyEntry, panic |-> "", reads |-> {"state", "degree"}])
    ELSE [entry |-> InsertRows(iter_with_pk_prefix(h.state, key), EmptyEntry),
          panic |-> "", reads |-> {"state"}]

\* take_state that hands out a copy on a hit and leaves the slot resident
take_state_cloning(h, key) ==
    LET counted == [h EXCEPT !.metrics.total_lookup_count = @ + 1] IN
    IF key \in DOMAIN h.inner
    THEN IF h.inner[key] = <<>>
         THEN [hm |-> counted, ret |-> <<>>, panic |-> MESSAGE, hit |-> TRUE, reads |-> {}]
         ELSE [hm |-> counted, ret |-> h.inner[key], panic |-> "", hit |-> TRUE, reads |-> {}]
    ELSE LET missed == [counted EXCEPT !.metrics.lookup_miss_count = @ + 1]
             f == fetch_cached_state(missed, key)
         IN  [hm |-> missed,
              ret |-> IF f.panic = "" THEN <<f.entry>> ELSE <<>>,
              panic |-> f.panic, hit |-> FALSE, reads |-> f.reads]

\* take_state that answers a taken slot with a default (empty) entry
take_state_default_on_taken(h, key) ==
    LET counted == [h EXCEPT !.metrics.total_lookup_count = @ + 1] IN
    IF key \in DOMAIN h.inner
    THEN [hm |-> [counted EXCEPT !.inner[key] = <<>>],
          ret |-> IF h.inner[key] = <<>> THEN <<EmptyEntry>> ELSE h.inner[key],
          panic |-> "", hit |-> TRUE, reads |-> {}]
    ELSE LET missed == [counted EXCEPT !.metrics.lookup_miss_count = @ + 1]
             f == fetch_cached_state(missed, key)
         IN  [hm |-> missed,
              ret |-> IF f.panic = "" THEN <<f.entry>> ELSE <<>>,
              panic |-> f.panic, hit |-> FALSE, reads |-> f.reads]

\* take_state that leaves a taken slot in the cache after a miss
take_state_caching_miss(h, key) ==
    LET counted == [h EXCEPT !.metrics.total_lookup_count = @ + 1] IN
    IF key \in DOMAIN h.inner
    THEN IF h.inner[key] = <<>>
         THEN [hm |-> counted, ret |-> <<>>, panic |-> MESSAGE, hit |-> TRUE, reads |-> {}]
         ELSE [hm |-> [counted EXCEPT !.inner[key] = <<>>], ret |-> h.inner[key],
               panic |-> "", hit |-> TRUE, reads |-> {}]
    ELSE LET missed == [counted EXCEPT !.metrics.lookup_miss_count = @ + 1]
             f == fetch_cached_state(missed, key)
         IN  [hm |-> [missed EXCEPT !.inner = [k \in (DOMAIN @) \cup {key} |->
                                    IF k = key THEN <<>> ELSE @[k]]],
              ret |-> IF f.panic = "" THEN <<f.entry>> ELSE <<>>,
              panic |-> f.panic, hit |-> FALSE, reads |-> f.reads]

\* take_state that counts every lookup as a miss
take_state_counting_hit_as_miss(h, key) ==
    LET counted == [h EXCEPT !.metrics.total_lookup_count = @ + 1,
                             !.metrics.lookup_miss_count = @ + 1] IN
    IF key \in DOMAIN h.inner
    THEN IF h.inner[key] = <<>>
         THEN [hm |-> counted, ret |-> <<>>, panic |-> MESSAGE, hit |-> TRUE, reads |-> {}]
         ELSE [hm |-> [counted EXCEPT !.inner[key] = <<>>], ret |-> h.inner[key],
               panic |-> "", hit |-> TRUE, reads |-> {}]
    ELSE LET f == fetch_cached_state(counted, key)
         IN  [hm |-> counted,
              ret |-> IF f.panic = "" THEN <<f.entry>> ELSE <<>>,
              panic |-> f.panic, hit |-> FALSE, reads |-> f.reads]

\* JoinHashMap::take_state: [hm, ret, panic, hit, reads]; ret is <<entry>> or <<>>
take_state(h, key) ==
    LET counted == [h EXCEPT !.metrics.total_lookup_count = @ + 1] IN
    IF key \in DOMAIN h.inner
    THEN IF h.inner[key] = <<>>
         THEN [hm |-> counted, ret |-> <<>>, panic |-> MESSAGE, hit |-> TRUE, reads |-> {}]
         ELSE [hm |-> [counted EXCEPT !.inner[key] = <<>>], ret |-> h.inner[key],
               panic |-> "", hit |-> TRUE, reads |-> {}]
    ELSE LET missed == [counted EXCEPT !.metrics.lookup_miss_count = @ + 1]
             f == fetch_cached_state(missed, key)
         IN  [hm |-> missed,
              ret |-> IF f.panic = "" THEN <<f.entry>> ELSE <<>>,
              panic |-> f.panic, hit |-> FALSE, reads |-> f.reads]

\* ExecutorCache::put
CachePut(inner, key, wrapper) ==
    [k \in (DOMAIN inner) \cup {key} |-> IF k = key THEN wrapper ELSE inner[k]]

\* JoinHashMap::update_state
update_state(h, key, state) == [h EXCEPT !.inner = CachePut(@, key, <<state>>)]

\* ExecutorCache::evict, for the set of keys the memory manager drops
evict(h, dropped) == [h EXCEPT !.inner = [k \in (DOMAIN @) \ dropped |-> @[k]]]

\* cache_may_stale(previous, current): the bitmap changed in either direction
cache_may_stale(previous_vnode_bitmap, vnode_bitmap) ==
    \/ ~(vnode_bitmap \subseteq previous_vnode_bitmap)
    \/ ~(previous_vnode_bitmap \subseteq vnode_bitmap)

\* update_vnode_bitmap that clears the cache whatever the bitmaps are
update_vnode_bitmap_always_clearing(h, vnode_bitmap) ==
    [h EXCEPT !.state = StateTableUpdateVnodeBitmap(@, vnode_bitmap).table,
              !.degree_state = StateTableUpdateVnodeBitmap(@, vnode_bitmap).table,
              !.inner = <<>>]

\* update_vnode_bitmap that leaves the cache as it is
update_vnode_bitmap_keeping_cache(h, vnode_bitmap) ==
    [h EXCEPT !.state = StateTableUpdateVnodeBitmap(@, vnode_bitmap).table,
              !.degree_state = StateTableUpdateVnodeBitmap(@, vnode_bitmap).table]

\* JoinHashMap::update_vnode_bitmap
update_vnode_bitmap(h, vnode_bitmap) ==
    LET previous_vnode_bitmap == StateTableUpdateVnodeBitmap(h.state, vnode_bitmap).previous
        h1 == [h EXCEPT !.state = StateTableUpdateVnodeBitmap(@, vnode_bitmap).table,
                        !.degree_state = StateTableUpdateVnodeBitmap(@, vnode_bitmap).table]
    IN  IF cache_may_stale(previous_vnode_bitmap, vnode_bitmap)
        THEN [h1 EXCEPT !.inner = <<>>]
        ELSE h1

\* the DerefMut of a cached wrapper: aborts when the slot is taken
SlotTaken(h, key) == key \in DOMAIN h.inner /\ h.inner[key] = <<>>
SlotResident(h, key) == key \in DOMAIN h.inner /\ h.inner[key] # <<>>

\* insert that skips the cached entry unless the slot holds one
insert_skipping_taken(h, key, value) ==
    LET inner1 == IF SlotResident(h, key)
                  THEN [h.inner EXCEPT ![key] =
                           <<EntryInsert(@[1], PkOf(value.row), Encode(value))>>]
                  ELSE h.inner
        tr == to_table_rows(value, h.state.pk_indices)
    IN  [hm |-> [h EXCEPT !.inner = inner1,
                          !.state = StateTableInsert(@, tr.row),
                          !.degree_state = StateTableInsert(@, tr.degree)],
         panic |-> ""]

\* insert that leaves the tables alone when the key is cached (write-back)
insert_cached_only(h, key, value) ==
    IF SlotTaken(h, key) THEN [hm |-> h, panic |-> MESSAGE]
    ELSE LET tr == to_table_rows(value, h.state.pk_indices) IN
         IF key \in DOMAIN h.inner
         THEN [hm |-> [h EXCEPT !.inner[key] =
                          <<EntryInsert(@[1], PkOf(value.row), Encode(value))>>],
               panic |-> ""]
         ELSE [hm |-> [h EXCEPT !.state = StateTableInsert(@, tr.row),
                                !.degree_state = StateTableInsert(@, tr.degree)],
               panic |-> ""]

\* JoinHashMap::insert: [hm, panic]
insert(h, key, value) ==
    IF SlotTaken(h, key) THEN [hm |-> h, panic |-> MESSAGE]
    ELSE LET inner1 == IF key \in DOMAIN h.inner
                       THEN [h.inner EXCEPT ![key] =
                                <<EntryInsert(@[1], PkOf(value.row), Encode(value))>>]
                       ELSE h.inner
             tr == to_table_rows(value, h.state.pk_indices)
         IN  [hm |-> [h EXCEPT !.inner = inner1,
                               !.state = StateTableInsert(@, tr.row),
                               !.degree_state = StateTableInsert(@, tr.degree)],
              panic |-> ""]

\* insert_row that also writes a degree row of degree 0
insert_row_with_degree(h, key, value) == insert(h, key, JoinRow(value, 0))

\* insert_row that writes the state table and leaves a cached entry as it is
insert_row_skipping_cache(h, key, value) ==
    IF SlotTaken(h, key) THEN [hm |-> h, panic |-> MESSAGE]
    ELSE [hm |-> [h EXCEPT !.state = StateTableInsert(@, value)], panic |-> ""]

\* JoinHashMap::insert_row: [hm, panic]
insert_row(h, key, value) ==
    IF SlotTaken(h, key) THEN [hm |-> h, panic |-> MESSAGE]
    ELSE LET inner1 == IF key \in DOMAIN h.inner
                       THEN [h.inner EXCEPT ![key] =
                                <<EntryInsert(@[1], PkOf(value), Encode(JoinRow(value, 0)))>>]
                       ELSE h.inner
         IN  [hm |-> [h EXCEPT !.inner = inner1, !.state = StateTableInsert(@, value)],
              panic |-> ""]

\* delete that leaves the tables alone unless the cached entry held the row
delete_cached_first(h, key, value) ==
    IF SlotTaken(h, key) THEN [hm |-> h, panic |-> MESSAGE]
    ELSE LET tr == to_table_rows(value, h.state.pk_indices) IN
         IF SlotResident(h, key) /\ PkOf(value.row) \notin DOMAIN h.inner[key][1]
         THEN [hm |-> h, panic |-> ""]
         ELSE [hm |-> [h EXCEPT !.inner = IF key \in DOMAIN h.inner
                                          THEN [@ EXCEPT ![key] =
                                                   <<EntryRemove(@[1], PkOf(value.row))>>]
                                          ELSE @,
                                !.state = StateTableDelete(@, tr.row),
                                !.degree_state = StateTableDelete(@, tr.degree)],
               panic |-> ""]

\* JoinHashMap::delete: [hm, panic]
delete(h, key, value) ==
    IF SlotTaken(h, key) THEN [hm |-> h, panic |-> MESSAGE]
    ELSE LET inner1 == IF key \in DOMAIN h.inner
                       THEN [h.inner EXCEPT ![key] = <<EntryRemove(@[1], PkOf(value.row))>>]
                       ELSE h.inner
             tr == to_table_rows(value, h.state.pk_indices)
         IN  [hm |-> [h EXCEPT !.inner = inner1,
                               !.state = StateTableDelete(@, tr.row),
                               !.degree_state = StateTableDelete(@, tr.degree)],
              panic |-> ""]

\* JoinHashMap::delete_row: [hm, panic]
delete_row(h, key, value) ==
    IF SlotTaken(h, key) THEN [hm |-> h, panic |-> MESSAGE]
    ELSE LET inner1 == IF key \in DOMAIN h.inner
                       THEN [h.inner EXCEPT ![key] = <<EntryRemove(@[1], PkOf(value))>>]
                       ELSE h.inner
         IN  [hm |-> [h EXCEPT !.inner = inner1, !.state = StateTableDelete(@, value)],
              panic |-> ""]

\* JoinHashMap::cached_rows: [value, panic]; every wrapper is dereferenced
cached_rows(h) ==
    IF \E k \in DOMAIN h.inner : h.inner[k] = <<>>
    THEN [value |-> 0, panic |-> MESSAGE]
    ELSE LET RECURSIVE Sum(_)
             Sum(S) == IF S = {} THEN 0
                       ELSE LET k == CHOOSE x \in S : TRUE
                            IN  EntryLen(h.inner[k][1]) + Sum(S \ {k})
         IN  [value |-> Sum(DOMAIN h.inner), panic |-> ""]

\* JoinHashMap::entry_count
entry_count(h) == Cardinality(DOMAIN h.inner)

\* manipulate_degree that moves the two in-memory degrees and not the degree row
manipulate_degree_in_memory(h, join_row_ref, join_row, new_ref_degree, new_degree) ==
    [hm |-> h,
     join_row_ref |-> [join_row_ref EXCEPT !.degree = new_ref_degree],
     join_row |-> [join_row EXCEPT !.degree = new_degree]]

\* manipulate_degree that also rewrites the row in the state table
manipulate_degree_rewriting_row(h, join_row_ref, join_row, new_ref_degree, new_degree) ==
    LET old_degree == to_table_rows(join_row, h.state.pk_indices).degree
        join_row1 == [join_row EXCEPT !.degree = new_degree]
        new_degree_row == to_table_rows(join_row1, h.state.pk_indices).degree
    IN  [hm |-> [h EXCEPT !.degree_state = StateTableUpdate(@, old_degree, new_degree_row),
                          !.state = StateTableUpdate(@, join_row.row, join_row.row)],
         join_row_ref |-> [join_row_ref EXCEPT !.degree = new_ref_degree],
         join_row |-> join_row1]

\* JoinHashMap::manipulate_degree with the action's results new_ref_degree and
\* new_degree: [hm, join_row_ref, join_row]
manipulate_degree(h, join_row_ref, join_row, new_ref_degree, new_degree) ==
    LET old_degree == to_table_rows(join_row, h.state.pk_indices).degree
        join_row1 == [join_row EXCEPT !.degree = new_degree]
        new_degree_row == to_table_rows(join_row1, h.state.pk_indices).degree
    IN  [hm |-> [h EXCEPT !.degree_state = StateTableUpdate(@, old_degree, new_degree_row)],
         join_row_ref |-> [join_row_ref EXCEPT !.degree = new_ref_degree],
         join_row |-> join_row1]

\* inc_degree that adds 2
inc_degree_twice(h, join_row_ref, join_row) ==
    LET r == manipulate_degree(h, join_row_ref, join_row,
                               join_row_ref.degree + 2, join_row.degree + 2)
    IN  [hm |-> r.hm, join_row_ref |-> r.join_row_ref, join_row |-> r.join_row,
         panic |-> ""]

\* JoinHashMap::inc_degree: [hm, join_row_ref, join_row, panic]
inc_degree(h, join_row_ref, join_row) ==
    LET r == manipulate_degree(h, join_row_ref, join_row,
                               join_row_ref.degree + 1, join_row.degree + 1)
    IN  [hm |-> r.hm, join_row_ref |-> r.join_row_ref, join_row |-> r.join_row,
         panic |-> ""]

\* dec_degree whose subtraction is not checked
dec_degree_unchecked(h, join_row_ref, join_row) ==
    LET r == manipulate_degree(h, join_row_ref, join_row,
                               join_row_ref.degree - 1, join_row.degree - 1)
    IN  [hm |-> r.hm, join_row_ref |-> r.join_row_ref, join_row |-> r.join_row,
         panic |-> ""]

\* JoinHashMap::dec_degree: [hm, join_row_ref, join_row, panic]
dec_degree(h, join_row_ref, join_row) ==
    IF join_row_ref.degree = 0 \/ join_row.degree = 0
    THEN [hm |-> h, join_row_ref |-> join_row_ref, join_row |-> join_row,
          panic |-> DEGREE_UNDERFLOW]
    ELSE LET r == manipulate_degree(h, join_row_ref, join_row,
                                    join_row_ref.degree - 1, join_row.degree - 1)
         IN  [hm |-> r.hm, join_row_ref |-> r.join_row_ref, join_row |-> r.join_row,
              panic |-> ""]

\* metrics flush that reports the counts and keeps them
metrics_flush_keeping_counts(m) ==
    [m EXCEPT !.join_lookup_miss_count = @ + m.lookup_miss_count,
              !.join_total_lookup_count = @ + m.total_lookup_count]

\* JoinHashMapMetrics::flush
metrics_flush(m) ==
    [lookup_miss_count |-> 0, total_lookup_count |-> 0,
     join_lookup_miss_count |-> m.join_lookup_miss_count + m.lookup_miss_count,
     join_total_lookup_count |-> m.join_total_lookup_count + m.total_lookup_count]

STORAGE_ERROR == "storage error"
FlushOutcomes == {"ok", "state_commit_failed", "degree_commit_failed"}

\* flush that commits the state table and leaves the degree table be
flush_state_table_only(h, epoch, outcome) ==
    LET h1 == [h EXCEPT !.metrics = metrics_flush(@)] IN
    IF outcome = "state_commit_failed"
    THEN [hm |-> [h1 EXCEPT !.state = StateTableCommitFailed(@)], err |-> STORAGE_ERROR]
    ELSE [hm |-> [h1 EXCEPT !.state = StateTableCommit(@, epoch),
                            !.degree_state.epoch = epoch],
          err |-> IF outcome = "degree_commit_failed" THEN STORAGE_ERROR ELSE ""]

\* flush that reports the metrics and commits neither table
flush_metrics_only(h, epoch, outcome) ==
    [hm |-> [h EXCEPT !.metrics = metrics_flush(@)], err |-> ""]

\* JoinHashMap::flush under the outcome of the two commits: [hm, err]
flush(h, epoch, outcome) ==
    LET h1 == [h EXCEPT !.metrics = metrics_flush(@)] IN
    IF outcome = "state_commit_failed"
    THEN [hm |-> [h1 EXCEPT !.state = StateTableCommitFailed(@)], err |-> STORAGE_ERROR]
    ELSE LET h2 == [h1 EXCEPT !.state = StateTableCommit(@, epoch)] IN
         IF outcome = "degree_commit_failed"
         THEN [hm |-> [h2 EXCEPT !.degree_state = StateTableCommitFailed(@)],
               err |-> STORAGE_ERROR]
         ELSE [hm |-> [h2 EXCEPT !.degree_state = StateTableCommit(@, epoch)], err |-> ""]

\* The task that owns the JoinHashMap is dropped while it waits on the state
\* store: what it buffered is discarded with it, what was committed persists.
DROPPED == "task dropped"
drop(h) == [h EXCEPT !.inner = <<>>, !.state.mem_table = {}, !.degree_state.mem_table = {}]

\* take_state dropped at the fetch of a miss
take_state_dropped(h, key) == drop(take_state(h, key).hm)

\* the two awaits of flush
FlushAwaits == {"state_commit", "degree_commit"}

\* flush dropped at its await at: before the state table's commit has
\* completed, or after it and before the degree table's has
flush_dropped(h, epoch, at) ==
    LET h1 == [h EXCEPT !.metrics = metrics_flush(@)] IN
    IF at = "state_commit" THEN drop(h1)
    ELSE drop([h1 EXCEPT !.state = StateTableCommit(@, epoch)])

\* ------------------------------------------------------- state
VARIABLES
    hm,      \* the JoinHashMap
    held,    \* join key -> entry taken out by the caller and not yet put back
    panic,   \* "" while running; the diagnostic once an operation has aborted
    last,    \* the operation that ran last and what it observed
    steps,   \* operations run so far
    side,    \* the join operator's two JoinHashMaps, "L" and "R"
    shadow,  \* the two JoinHashMaps of the same run without any eviction
    jout,    \* what the operator's last step produced
    shadow_out, \* what the last step of the run without eviction produced
    handler, \* the SourceStateTableHandler of a source executor
    output,  \* what the join has sent downstream, when the run collects it
    upstream, \* per input side, what is still to arrive and the barrier it waits at
    calc,    \* a function of the common library applied to its arguments
    reader   \* a source reader: its pending input and the stream it has yielded

hvars == <<hm, held, panic, last, steps>>
jvars == <<side, shadow, jout, shadow_out>>
vars == <<hm, held, panic, last, steps, side, shadow, jout, shadow_out, handler, output,
          upstream, calc, reader>>

Op(name, key, hit, reads) ==
    [op |-> name, key |-> key, hit |-> hit, reads |-> reads, arg |-> <<>>,
     found |-> FALSE]
\* the same for an operation given the argument arg besides its key
OpArg(name, key, hit, arg) ==
    [op |-> name, key |-> key, hit |-> hit, reads |-> {}, arg |-> arg,
     found |-> FALSE]
\* the entry cached for key holds the pk of row
CachedPk(h, key, row) == SlotResident(h, key) /\ PkOf(row) \in DOMAIN h.inner[key][1]

Lookups(h) == h.metrics.total_lookup_count + h.metrics.join_total_lookup_count

HeldPut(key, entry) == [k \in (DOMAIN held) \cup {key} |-> IF k = key THEN entry ELSE held[k]]
HeldDrop(key) == [k \in (DOMAIN held) \ {key} |-> held[k]]

\* what one step of the join operator produced: the output rows, the entry
\* take_state handed it (<<entry>>, or <<>> for none), the error it ended in,
\* and the record <<side, op, row>> it processed (<<>> for none)
Out(op, emitted, taken, err) ==
    [op |-> op, emitted |-> emitted, taken |-> taken, err |-> err, rec |-> <<>>]

\* no source executor runs beside a join, and no output is collected
NoCalc == calc = <<>> /\ reader = <<>>
NoSource == handler = <<>> /\ output = <<>> /\ upstream = <<>> /\ NoCalc

\* no join operator runs beside a JoinHashMap driven on its own
NoJoin ==
    /\ side = <<>>
    /\ shadow = <<>>
    /\ jout = Out("none", <<>>, <<>>, "")
    /\ shadow_out = Out("none", <<>>, <<>>, "")
    /\ NoSource

\* the owner runs one more operation; an aborted owner runs none
Running ==
    /\ panic = ""
    /\ steps < MaxSteps
    /\ steps' = steps + 1
    /\ UNCHANGED <<jvars, handler, output, upstream, calc, reader>>

\* ------------------------------------------------------- operations
\* take_state(key) called by the owner of the map
TakeState(key) ==
    /\ Running
    /\ Lookups(hm) < MaxLookups
    /\ LET r == take_state(hm, key) IN
        /\ hm' = r.hm
        /\ panic' = r.panic
        /\ held' = IF r.ret = <<>> THEN held ELSE HeldPut(key, r.ret[1])
        /\ last' = Op("take_state", key, r.hit, r.reads)

\* update_state(key, entry) with the entry the caller holds for key
UpdateState(key) ==
    /\ Running
    /\ key \in DOMAIN held
    /\ hm' = update_state(hm, key, held[key])
    /\ held' = HeldDrop(key)
    /\ last' = Op("update_state", key, FALSE, {})
    /\ UNCHANGED panic

\* evict(): the memory manager drops a set of cache slots
Evict(dropped) ==
    /\ Running
    /\ dropped # {}
    /\ dropped \subseteq DOMAIN hm.inner
    /\ hm' = evict(hm, dropped)
    /\ last' = Op("evict", <<>>, FALSE, {})
    /\ UNCHANGED <<held, panic>>

\* rows of the input stream under a join key
RowsOf(key) == {r \in AllRows : Project(r, join_key_indices) = key}

\* the degree the degree table shows for a state row (0 when it shows none)
StoredDegree(h, row) ==
    LET gs == {g \in TableView(h.degree_state) :
                  Project(g, degree_order_key_indices) = Project(row, state_order_key_indices)}
    IN  IF gs = {} \/ (CHOOSE g \in gs : TRUE)[3] = None THEN 0
        ELSE AsU64(Unwrap((CHOOSE g \in gs : TRUE)[3]))

\* insert(key, JoinRow(row, degree)) for a new row of the input stream
Insert(key, row, degree) ==
    /\ Running
    /\ hm.need_degree_table
    /\ row \in RowsOf(key) \ TableView(hm.state)
    /\ LET r == insert(hm, key, JoinRow(row, degree)) IN
        /\ hm' = r.hm
        /\ panic' = r.panic
    /\ last' = OpArg("insert", key, SlotResident(hm, key), JoinRow(row, degree))
    /\ UNCHANGED held

\* insert_row(key, row) on a side that keeps no degrees
InsertRow(key, row) ==
    /\ Running
    /\ ~hm.need_degree_table
    /\ row \in RowsOf(key) \ TableView(hm.state)
    /\ LET r == insert_row(hm, key, row) IN
        /\ hm' = r.hm
        /\ panic' = r.panic
    /\ last' = OpArg("insert_row", key, SlotResident(hm, key), row)
    /\ UNCHANGED held

\* delete(key, JoinRow(row, degree)) for a stored row, with its current degree
Delete(key, row) ==
    /\ Running
    /\ hm.need_degree_table
    /\ row \in RowsOf(key) \cap TableView(hm.state)
    /\ LET r == delete(hm, key, JoinRow(row, StoredDegree(hm, row))) IN
        /\ hm' = r.hm
        /\ panic' = r.panic
    /\ last' = [OpArg("delete", key, SlotResident(hm, key),
                      JoinRow(row, StoredDegree(hm, row)))
                  EXCEPT !.found = CachedPk(hm, key, row)]
    /\ UNCHANGED held

\* delete_row(key, row) on a side that keeps no degrees
DeleteRow(key, row) ==
    /\ Running
    /\ ~hm.need_degree_table
    /\ row \in RowsOf(key) \cap TableView(hm.state)
    /\ LET r == delete_row(hm, key, row) IN
        /\ hm' = r.hm
        /\ panic' = r.panic
    /\ last' = [OpArg("delete_row", key, SlotResident(hm, key), row)
                  EXCEPT !.found = CachedPk(hm, key, row)]
    /\ UNCHANGED held

\* inc_degree on the row pk of the entry the caller holds for key
IncDegree(key, pk) ==
    /\ Running
    /\ hm.need_degree_table
    /\ key \in DOMAIN held /\ pk \in DOMAIN held[key]
    /\ held[key][pk].degree < MaxDegree
    /\ LET r == inc_degree(hm, held[key][pk], Decode(held[key][pk])) IN
        /\ hm' = r.hm
        /\ held' = [held EXCEPT ![key][pk] = r.join_row_ref]
        /\ panic' = r.panic
    /\ last' = OpArg("inc_degree", key, FALSE, pk)

\* dec_degree on the row pk of the entry the caller holds for key
DecDegree(key, pk) ==
    /\ Running
    /\ hm.need_degree_table
    /\ key \in DOMAIN held /\ pk \in DOMAIN held[key]
    /\ LET r == dec_degree(hm, held[key][pk], Decode(held[key][pk])) IN
        /\ hm' = r.hm
        /\ held' = [held EXCEPT ![key][pk] = r.join_row_ref]
        /\ panic' = r.panic
    /\ last' = OpArg("dec_degree", key, FALSE, pk)

\* flush(next epoch) at a barrier, under the outcome of the two commits; reads
\* names the tables that had writes buffered
Flush(outcome) ==
    /\ Running
    /\ hm.state.epoch < MaxEpoch
    /\ LET r == flush(hm, hm.state.epoch + 1, outcome) IN
        /\ hm' = r.hm
        /\ panic' = r.err
    /\ last' = [OpArg("flush", <<>>, FALSE, outcome) EXCEPT !.reads =
                    {"state" : x \in hm.state.mem_table} \cup
                    {"degree" : x \in hm.degree_state.mem_table}]
    /\ UNCHANGED held

\* the task is dropped at the fetch inside take_state(key)
TakeStateDropped(key) ==
    /\ Running
    /\ Lookups(hm) < MaxLookups
    /\ key \notin DOMAIN hm.inner
    /\ hm' = take_state_dropped(hm, key)
    /\ held' = <<>>
    /\ panic' = DROPPED
    /\ last' = OpArg("dropped", key, FALSE, "fetch")

\* the task is dropped at one of the two commits inside flush
FlushDropped(at) ==
    /\ Running
    /\ hm.state.epoch < MaxEpoch
    /\ hm' = flush_dropped(hm, hm.state.epoch + 1, at)
    /\ held' = <<>>
    /\ panic' = DROPPED
    /\ last' = OpArg("dropped", <<>>, FALSE, at)

\* cached_rows()
CachedRows ==
    /\ Running
    /\ last.op # "cached_rows"
    /\ panic' = cached_rows(hm).panic
    /\ last' = Op("cached_rows", <<>>, FALSE, {})
    /\ UNCHANGED <<hm, held>>

\* ------------------------------------------------------- one JoinHashMap
\* A JoinHashMap over empty tables, driven by its owner through its public
\* operations in any order.
Init ==
    /\ \E need_degree_table \in BOOLEAN : hm = NewJoinHashMap({}, {}, need_degree_table)
    /\ held = <<>>
    /\ panic = ""
    /\ last = Op("new", <<>>, FALSE, {})
    /\ steps = 0
    /\ NoJoin

Next ==
    \/ \E key \in AllJoinKeys : TakeState(key)
    \/ \E key \in AllJoinKeys : UpdateState(key)
    \/ \E dropped \in SUBSET AllJoinKeys : Evict(dropped)
    \/ \E key \in AllJoinKeys : \E row \in AllRows : \E degree \in 0..MaxDegree :
          Insert(key, row, degree)
    \/ \E key \in AllJoinKeys : \E row \in AllRows : InsertRow(key, row)
    \/ \E key \in AllJoinKeys : \E row \in AllRows : Delete(key, row)
    \/ \E key \in AllJoinKeys : \E row \in AllRows : DeleteRow(key, row)
    \/ \E key \in AllJoinKeys : \E pk \in {PkOf(r) : r \in AllRows} : IncDegree(key, pk)
    \/ \E key \in AllJoinKeys : \E pk \in {PkOf(r) : r \in AllRows} : DecDegree(key, pk)
    \/ \E outcome \in FlushOutcomes : Flush(outcome)
    \/ CachedRows
    \/ \E key \in AllJoinKeys : TakeStateDropped(key)
    \/ \E at \in FlushAwaits : FlushDropped(at)

Spec == Init /\ [][Next]_vars

\* The owner as the join operator drives the map: an entry taken out is put
\* back (after inc_degree / dec_degree on its rows) before any other operation
\* of the map runs.
NoneHeld == held = <<>>

NextOwner ==
    \/ NoneHeld /\ \E key \in AllJoinKeys : TakeState(key)
    \/ \E key \in AllJoinKeys : UpdateState(key)
    \/ NoneHeld /\ \E dropped \in SUBSET AllJoinKeys : Evict(dropped)
    \/ NoneHeld /\ \E key \in AllJoinKeys : \E row \in AllRows : \E degree \in 0..MaxDegree :
          Insert(key, row, degree)
    \/ NoneHeld /\ \E key \in AllJoinKeys : \E row \in AllRows : InsertRow(key, row)
    \/ NoneHeld /\ \E key \in AllJoinKeys : \E row \in AllRows : Delete(key, row)
    \/ NoneHeld /\ \E key \in AllJoinKeys : \E row \in AllRows : DeleteRow(key, row)
    \/ \E key \in AllJoinKeys : \E pk \in {PkOf(r) : r \in AllRows} : IncDegree(key, pk)
    \/ \E key \in AllJoinKeys : \E pk \in {PkOf(r) : r \in AllRows} : DecDegree(key, pk)
    \/ NoneHeld /\ \E outcome \in FlushOutcomes : Flush(outcome)
    \/ NoneHeld /\ CachedRows

SpecOwner == Init /\ [][NextOwner]_vars

\* ------------------------------------------------------- fetch on miss
\* Stored contents a JoinHashMap can be created over. Retention (TTL) on
\* either table and a damaged degree column are the storage's doing, so the
\* rows of join key 1 are drawn freely: any state rows, and per order key no
\* degree row, a degree 0..MaxDegree, or a NULL degree column.  The rows of
\* join key 2 are as the operator leaves them: one degree row per state row.
DegreeColumns == {Some(d) : d \in 0..MaxDegree} \cup {None}
SeedStateRows == {S1 \cup S2 : S1 \in SUBSET {MkRow(1, pk) : pk \in Pks},
                               S2 \in SUBSET {MkRow(2, pk) : pk \in Pks}}
SeedDegreeRows(state_rows) ==
    {D1 \cup {Chain(r, <<Some(0)>>) : r \in {x \in state_rows : x[1] = Some(2)}} :
        D1 \in {{Chain(MkRow(1, pk), <<f[pk]>>) : pk \in DOMAIN f} :
                    f \in UNION {[P -> DegreeColumns] : P \in SUBSET Pks}}}

InitFetch ==
    /\ \E state_rows \in SeedStateRows :
       \E degree_rows \in SeedDegreeRows(state_rows) :
       \E need_degree_table \in BOOLEAN :
          hm = NewJoinHashMap(state_rows, degree_rows, need_degree_table)
    /\ held = <<>>
    /\ panic = ""
    /\ last = Op("new", <<>>, FALSE, {})
    /\ steps = 0
    /\ NoJoin

NextFetch ==
    \/ \E key \in AllJoinKeys : TakeState(key)
    \/ \E key \in AllJoinKeys : UpdateState(key)
    \/ \E dropped \in SUBSET AllJoinKeys : Evict(dropped)

SpecFetch == InitFetch /\ [][NextFetch]_vars

\* ------------------------------------------------------- join operator
\* The operator that owns two JoinHashMaps, one per input side, and joins the
\* rows of the two sides on equal join columns and a remaining non-equi
\* condition.  A side keeps a degree table exactly when its unmatched rows
\* are output null-padded (the outer side of the join).
Sides == {"L", "R"}
Other(S) == IF S = "L" THEN "R" ELSE "L"

\* the remaining non-equi join condition, on the pk columns of the two rows
Cond(l_row, r_row) == Unwrap(l_row[2]) + Unwrap(r_row[2]) <= 3
Satisfies(S, row, matched) == IF S = "L" THEN Cond(row, matched) ELSE Cond(matched, row)

NullRow == <<None, None>>
JoinOutput(S, row, matched) == IF S = "L" THEN Chain(row, matched) ELSE Chain(matched, row)

\* step 3 for one row (pk, encoded) of the entry taken from the opposite
\* side: a row satisfying the condition is output joined and has its degree
\* moved
ProbeRow(S, op, row, pk, encoded, acc) ==
    LET matched == Decode(encoded) IN
    IF ~Satisfies(S, row, matched.row) THEN acc
    ELSE LET d == IF ~acc.hm.need_degree_table
                  THEN [hm |-> acc.hm, join_row_ref |-> encoded, panic |-> ""]
                  ELSE IF op = "+"
                       THEN inc_degree(acc.hm, encoded, matched)
                       ELSE dec_degree(acc.hm, encoded, matched)
         IN  [hm |-> d.hm,
              entry |-> [acc.entry EXCEPT ![pk] = d.join_row_ref],
              degree |-> acc.degree + 1,
              emitted |-> Append(acc.emitted, <<op, JoinOutput(S, row, matched.row)>>),
              panic |-> d.panic]

\* step 3 for the rows it[i], it[i+1], .. in pk order.  (Each intermediate
\* result is bound through a singleton set, so that it is computed once.)
RECURSIVE Probe(_, _, _, _, _, _)
Probe(S, op, row, it, i, acc) ==
    IF i > Len(it) \/ acc.panic # "" THEN acc
    ELSE CHOOSE r \in {Probe(S, op, row, it, i + 1, a) :
                          a \in {ProbeRow(S, op, row, it[i][1], it[i][2], acc)}} : TRUE

\* steps 4 and 5 after the probe p of the entry t.ret: [sd, out]
AfterProbe(sd, S, op, row, t, p) ==
    LET O == Other(S)
        key == Project(row, join_key_indices)
    IN  IF p.panic # ""
        THEN [sd |-> [sd EXCEPT ![O] = p.hm],
              out |-> Out("record", p.emitted, t.ret, p.panic)]
        ELSE LET own == IF sd[S].need_degree_table
                        THEN IF op = "+"
                             THEN insert(sd[S], key, JoinRow(row, p.degree))
                             ELSE delete(sd[S], key, JoinRow(row, p.degree))
                        ELSE IF op = "+"
                             THEN insert_row(sd[S], key, row)
                             ELSE delete_row(sd[S], key, row)
                 emitted == IF p.degree = 0 /\ sd[S].need_degree_table
                            THEN << <<op, JoinOutput(S, row, NullRow)>> >>
                            ELSE p.emitted
             IN  [sd |-> [sd EXCEPT ![O] = update_state(p.hm, key, p.entry),
                                    ![S] = own.hm],
                  out |-> Out("record", emitted, t.ret, own.panic)]

\* step 3 on the result t of take_state on the opposite side: [sd, out]
AfterTake(sd, S, op, row, t) ==
    IF t.panic # ""
    THEN [sd |-> [sd EXCEPT ![Other(S)] = t.hm], out |-> Out("record", <<>>, <<>>, t.panic)]
    ELSE CHOOSE r \in {AfterProbe(sd, S, op, row, t, p) :
                          p \in {Probe(S, op, row, EntryIter(t.ret[1]), 1,
                                       [hm |-> t.hm, entry |-> t.ret[1], degree |-> 0,
                                        emitted |-> <<>>, panic |-> ""])}} : TRUE

\* step 2: a component of the join key is NULL and its null_matched bit is
\* clear
NullNoMatch(h, key) == \E i \in 1..Len(key) : key[i] = None /\ ~null_matched(h)[i]

\* step 5 alone, for a record that matches nothing and probes nothing; a side
\* whose unmatched rows are output emits the row null-padded: [sd, out]
NoProbe(sd, S, op, row) ==
    LET key == Project(row, join_key_indices)
        own == IF sd[S].need_degree_table
               THEN IF op = "+"
                    THEN insert(sd[S], key, JoinRow(row, 0))
                    ELSE delete(sd[S], key, JoinRow(row, 0))
               ELSE IF op = "+"
                    THEN insert_row(sd[S], key, row)
                    ELSE delete_row(sd[S], key, row)
        emitted == IF sd[S].need_degree_table
                   THEN << <<op, JoinOutput(S, row, NullRow)>> >>
                   ELSE <<>>
    IN  [sd |-> [sd EXCEPT ![S] = own.hm], out |-> Out("record", emitted, <<>>, own.panic)]

\* steps 1 to 5 for the record (op row) of side S over the two maps sd:
\* [sd, out]
JoinRecord(sd, S, op, row) ==
    IF NullNoMatch(sd[S], Project(row, join_key_indices))
    THEN NoProbe(sd, S, op, row)
    ELSE CHOOSE r \in {AfterTake(sd, S, op, row, t) :
                     t \in {take_state(sd[Other(S)], Project(row, join_key_indices))}} : TRUE

\* on a barrier: flush(next_epoch) on both sides, the left one first; a
\* failed commit ends the barrier
JoinBarrier(sd, outcome) ==
    LET l == flush(sd["L"], sd["L"].state.epoch + 1, outcome["L"]) IN
    IF l.err # ""
    THEN [sd |-> [sd EXCEPT !["L"] = l.hm], out |-> Out("barrier", <<>>, <<>>, l.err)]
    ELSE LET r == flush(sd["R"], sd["R"].state.epoch + 1, outcome["R"])
         IN  [sd |-> [sd EXCEPT !["L"] = l.hm, !["R"] = r.hm],
              out |-> Out("barrier", <<>>, <<>>, r.err)]

\* the operator runs one more step; a failed operator runs none
JoinRunning ==
    /\ jout.err = ""
    /\ steps < MaxJoinSteps
    /\ steps' = steps + 1
    /\ UNCHANGED <<hm, held, panic, last, handler, output, upstream, calc, reader>>

\* a record of a well-formed stream arrives on side S: + for a row the side
\* does not store, - for a row it stores
Record(S, op, row) ==
    /\ JoinRunning
    /\ Lookups(side[Other(S)]) < MaxLookups
    /\ (op = "+") = (row \notin TableView(side[S].state))
    /\ \E r \in {JoinRecord(side, S, op, row)} :
       \E q \in {JoinRecord(shadow, S, op, row)} :
           /\ side' = r.sd
           /\ jout' = [r.out EXCEPT !.rec = <<S, op, row>>]
           /\ shadow' = q.sd
           /\ shadow_out' = [q.out EXCEPT !.rec = <<S, op, row>>]

\* a barrier arrives, with the outcome of each side's commits
Barrier(outcome) ==
    /\ JoinRunning
    /\ side["L"].state.epoch < MaxEpoch
    /\ outcome["L"] # "ok" => outcome["R"] = "ok"
    /\ \E r \in {JoinBarrier(side, outcome)} :
       \E q \in {JoinBarrier(shadow, outcome)} :
           /\ side' = r.sd
           /\ jout' = r.out
           /\ shadow' = q.sd
           /\ shadow_out' = q.out

\* the memory manager evicts the entries dropped from the cache of side S
JoinEvict(S, dropped) ==
    /\ JoinRunning
    /\ dropped # {}
    /\ dropped \subseteq DOMAIN side[S].inner
    /\ side' = [side EXCEPT ![S] = evict(@, dropped)]
    /\ UNCHANGED <<shadow, jout, shadow_out>>

InitJoin ==
    /\ \E need_degree_table \in [Sides -> BOOLEAN] :
          side = [S \in Sides |-> NewJoinHashMap({}, {}, need_degree_table[S])]
    /\ shadow = side
    /\ jout = Out("init", <<>>, <<>>, "")
    /\ shadow_out = jout
    /\ hm = <<>>
    /\ held = <<>>
    /\ panic = ""
    /\ last = Op("none", <<>>, FALSE, {})
    /\ steps = 0
    /\ NoSource

NextJoin ==
    \/ \E S \in Sides : \E op \in {"+", "-"} : \E row \in AllRows : Record(S, op, row)
    \/ \E outcome \in [Sides -> FlushOutcomes] : Barrier(outcome)
    \/ \E S \in Sides : \E dropped \in SUBSET AllJoinKeys : JoinEvict(S, dropped)

SpecJoin == InitJoin /\ [][NextJoin]_vars

\* ------------------------------------------------------- fetch-on-miss claims
OrderKey(row) == Project(row, state_order_key_indices)
\* rows of table t a read under join-key prefix key observes
StoredUnder(t, key) == {r \in TableView(t) : IsPrefix(key, r)}
\* the degree rows stored for the order key of state row r
DegreeRowsOf(h, r) == {g \in TableView(h.degree_state) : OrderKey(g) = OrderKey(r)}
\* state rows under key that have a degree row
Matched(h, key) == {r \in StoredUnder(h.state, key) : DegreeRowsOf(h, r) # {}}
DegreeColumnOf(h, r) == (CHOOSE g \in DegreeRowsOf(h, r) : TRUE)[3]
\* the rows (decoded) an entry holds
EntryRows(e) == {Decode(e[pk]) : pk \in DOMAIN e}

\* the last operation was a take_state that missed the cache
TakeMiss == last.op = "take_state" /\ ~last.hit

\* C4: a take_state(K) that misses reads storage and hands the caller an entry
\* (never the empty slot) whose rows are rows stored under prefix K, the empty
\* entry without error when storage holds none; the step changes neither the
\* cache nor the two tables, and K stays absent from the cache.
C4_TakeMissFrame ==
    [][hm'.metrics.lookup_miss_count = hm.metrics.lookup_miss_count + 1 =>
        LET key == last'.key IN
        /\ last'.op = "take_state" /\ ~last'.hit
        /\ "state" \in last'.reads
        /\ hm'.inner = hm.inner
        /\ hm'.state = hm.state
        /\ hm'.degree_state = hm.degree_state
        /\ key \notin DOMAIN hm'.inner
        /\ panic' = "" =>
              /\ key \in DOMAIN held'
              /\ \A pk \in DOMAIN held'[key] :
                    /\ Decode(held'[key][pk]).row \in StoredUnder(hm.state, key)
                    /\ pk = PkOf(Decode(held'[key][pk]).row)
              /\ ~hm.need_degree_table =>
                    {jr.row : jr \in EntryRows(held'[key])} = StoredUnder(hm.state, key)
        /\ StoredUnder(hm.state, key) = {} =>
              panic' = "" /\ held'[key] = EmptyEntry
    ]_vars

C4_Witness ==
    /\ TakeMiss /\ panic = ""
    /\ last.key \in DOMAIN held /\ EntryLen(held[last.key]) = Cardinality(Pks)
    /\ hm.inner = <<>>

\* C7: with need_degree_table a miss returns exactly the state rows of K whose
\* order key also has a degree row, each with the degree of that row; state
\* rows without a degree row and degree rows without a state row are left out
\* and raise no error (the only abort is a matched NULL degree).
C7_ZipMatchedPairs ==
    (TakeMiss /\ hm.need_degree_table) =>
        LET key == last.key
            matched == Matched(hm, key)
        IN  IF \E r \in matched : DegreeColumnOf(hm, r) = None
            THEN panic = DEGREE_NULL
            ELSE /\ panic = ""
                 /\ key \in DOMAIN held
                 /\ DOMAIN held[key] = {PkOf(r) : r \in matched}
                 /\ \A r \in matched :
                       Decode(held[key][PkOf(r)])
                         = JoinRow(r, AsU64(Unwrap(DegreeColumnOf(hm, r))))

\* a matched pair with a non-zero degree next to a state row that has no
\* degree row, under the fetched key
C7_Witness ==
    /\ TakeMiss /\ hm.need_degree_table /\ panic = ""
    /\ \E r \in StoredUnder(hm.state, last.key) : DegreeRowsOf(hm, r) = {}
    /\ \E pk \in DOMAIN held[last.key] : held[last.key][pk].degree > 0

\* the orphan scenario under key: one state row R, and one degree row under
\* another pk of the same join key
OrphanScenario(key) ==
    \E R \in StoredUnder(hm.state, key) : \E g \in StoredUnder(hm.degree_state, key) :
        /\ StoredUnder(hm.state, key) = {R}
        /\ StoredUnder(hm.degree_state, key) = {g}
        /\ OrderKey(g) # OrderKey(R)
        /\ g[3] # None

\* C8 (as claimed): in the orphan scenario take_state(K) returns, without
\* error, an entry that contains R with degree 0.
C8_OrphanKeepsRow ==
    (TakeMiss /\ OrphanScenario(last.key)) =>
        /\ panic = ""
        /\ last.key \in DOMAIN held
        /\ \E R \in StoredUnder(hm.state, last.key) :
              JoinRow(R, 0) \in EntryRows(held[last.key])

\* C8 (amended): in the orphan scenario take_state(K) returns without error;
\* with need_degree_table the entry is empty (R has no degree row and is left
\* out with the orphan), without it the entry is R with degree 0.
C8_OrphanScenario ==
    (TakeMiss /\ OrphanScenario(last.key)) =>
        /\ panic = ""
        /\ last.key \in DOMAIN held
        /\ IF hm.need_degree_table
           THEN held[last.key] = EmptyEntry
           ELSE EntryRows(held[last.key])
                  = {JoinRow(R, 0) : R \in StoredUnder(hm.state, last.key)}

C8_Witness == TakeMiss /\ OrphanScenario(last.key) /\ hm.need_degree_table /\ panic = ""

\* C9: without need_degree_table a miss reads the state table alone and
\* returns every state row under prefix K with degree 0, keyed by its pk, the
\* pks ascending in the order the state table iterates.
C9_StateOnlyFetch ==
    (TakeMiss /\ ~hm.need_degree_table) =>
        LET key == last.key
            rows == iter_with_pk_prefix(hm.state, key)
            it == EntryIter(held[key])
        IN  /\ panic = ""
            /\ last.reads = {"state"}
            /\ key \in DOMAIN held
            /\ Len(it) = Cardinality(StoredUnder(hm.state, key))
            /\ Len(it) = Len(rows)
            /\ \A i \in 1..Len(it) :
                  /\ it[i][1] = PkOf(rows[i])
                  /\ Decode(it[i][2]) = JoinRow(rows[i], 0)
            /\ \A i \in 1..(Len(it) - 1) : BytesLess(it[i][1], it[i + 1][1])

\* every pk of the key stored, some of them with a non-zero or NULL degree row
C9_Witness ==
    /\ TakeMiss /\ ~hm.need_degree_table
    /\ EntryLen(held[last.key]) = Cardinality(Pks)
    /\ \E g \in StoredUnder(hm.degree_state, last.key) : g[3] # Some(0)
    /\ \E r \in StoredUnder(hm.state, last.key) : DegreeRowsOf(hm, r) = {}

\* C10: a miss with need_degree_table that meets a matched degree row whose
\* degree column is NULL aborts with "degree should not be NULL"; the caller
\* gets no entry and nothing is cached for the key.
C10_NullDegreeAborts ==
    (TakeMiss /\ hm.need_degree_table
      /\ \E r \in Matched(hm, last.key) : DegreeColumnOf(hm, r) = None) =>
        /\ panic = DEGREE_NULL
        /\ last.key \notin DOMAIN held
        /\ last.key \notin DOMAIN hm.inner

C10_Witness ==
    /\ panic = DEGREE_NULL
    /\ \E r \in Matched(hm, last.key) : DegreeColumnOf(hm, r) # None

\* ------------------------------------------------------- cache slot claims
SlotKind(h, key) ==
    IF key \notin DOMAIN h.inner THEN "absent"
    ELSE IF h.inner[key] = <<>> THEN "taken" ELSE "resident"

\* the step is an operation named op
StepOf(op) == steps' = steps + 1 /\ last'.op = op

C5_NoFailureWhileTaken == panic = MESSAGE => last.op = "take_state"

KeyedOps == {"insert", "insert_row", "delete", "delete_row"}

\* C5 (amended): between take_state(K) and update_state(K) no other operation
\* reaches the entry the caller holds, and a taken slot stays empty; insert,
\* insert_row, delete and delete_row on K and cached_rows abort with MESSAGE
\* exactly when the slot is taken (K was resident when taken), writing
\* nothing; evict and operations on other keys never fail.
C5_TakenSlotAborts ==
    [][(steps' = steps + 1 /\ last'.op \in KeyedOps \cup {"evict", "cached_rows"}) =>
        /\ held' = held
        /\ \A key \in AllJoinKeys :
              SlotTaken(hm, key) => (SlotTaken(hm', key) \/ last'.op = "evict")
        /\ panic' \in {"", MESSAGE}
        /\ panic' = MESSAGE <=>
              \/ last'.op \in KeyedOps /\ SlotTaken(hm, last'.key)
              \/ last'.op = "cached_rows" /\ \E key \in AllJoinKeys : SlotTaken(hm, key)
        /\ panic' = MESSAGE => hm' = hm
    ]_vars

\* insert(K, ..) has aborted on the slot a take_state(K) emptied
C5_Witness ==
    /\ panic = MESSAGE /\ last.op = "insert"
    /\ SlotTaken(hm, last.key) /\ last.key \in DOMAIN held

\* C6: take_state(K) on a slot that is still taken aborts with MESSAGE; the
\* caller gets no entry and the cache is left as it was.
C6_DoubleTakeAborts ==
    [][\A key \in AllJoinKeys :
        (StepOf("take_state") /\ last'.key = key /\ SlotTaken(hm, key)) =>
            /\ panic' = MESSAGE
            /\ held' = held
            /\ hm'.inner = hm.inner
    ]_vars

C6_Witness ==
    /\ panic = MESSAGE /\ last.op = "take_state"
    /\ SlotTaken(hm, last.key) /\ last.key \in DOMAIN held

\* ------------------------------------------------------- join operator claims
\* rows of the opposite side stored under the join columns of row that
\* satisfy the join condition with it
MatchesOf(sd, S, row) ==
    {m \in TableView(sd[Other(S)].state) :
        /\ Project(m, join_key_indices) = Project(row, join_key_indices)
        /\ Satisfies(S, row, m)}

\* degrees stored for row on side S: the degree column of its degree rows
StoredDegrees(sd, S, row) ==
    {Unwrap(d[Len(d)]) : d \in {x \in TableView(sd[S].degree_state) :
                                   Project(x, degree_order_key_indices) = OrderKey(row)}}

\* every row in the cache of side S carries the degree its degree row stores
CacheAgrees(sd, S) ==
    \A key \in DOMAIN sd[S].inner :
        sd[S].inner[key] # <<>> =>
            \A pk \in DOMAIN sd[S].inner[key][1] :
                LET jr == Decode(sd[S].inner[key][1][pk])
                IN  StoredDegrees(sd, S, jr.row) = {jr.degree}

\* C1: Degree conservation.  While the operator has not failed, after every
\* record and at every epoch boundary (after flush on both sides), on each
\* side that keeps a degree table every stored row has exactly one degree row,
\* and the degree d it stores is the number of rows stored on the opposite
\* side with equal join columns that satisfy the join condition with the row;
\* the rows cached for the side carry the same degree.
C1_DegreeConservation ==
    jout.err = "" /\ side # <<>> =>
        \A S \in Sides :
            side[S].need_degree_table =>
                /\ \A row \in TableView(side[S].state) :
                      StoredDegrees(side, S, row) = {Cardinality(MatchesOf(side, S, row))}
                /\ CacheAgrees(side, S)

\* an epoch boundary at which a committed row has a non-zero degree, after
\* two records of the opposite side have probed the side
C1_Witness ==
    /\ jout.op = "barrier" /\ jout.err = ""
    /\ \E S \in Sides :
          /\ side[S].need_degree_table
          /\ side[S].state.mem_table = {} /\ side[S].degree_state.mem_table = {}
          /\ \E row \in side[S].state.committed :
                Cardinality(MatchesOf(side, S, row)) >= 1
          /\ side[S].metrics.join_total_lookup_count >= 2

\* C2: Cache transparency.  After every step of the operator, the run in
\* which the memory manager evicts any cache entries at any points between
\* steps and the run of the same records and barriers without eviction have
\* produced the same output, were handed the same entry (rows and degrees) by
\* take_state, ended alike, and hold the same state and degree tables.
C2_CacheTransparency ==
    side # <<>> =>
        /\ jout = shadow_out
        /\ \A S \in Sides :
              /\ side[S].state = shadow[S].state
              /\ side[S].degree_state = shadow[S].degree_state

\* a record that found rows to join after an eviction: take_state missed in
\* the run with eviction where it hit in the run without
C2_Witness ==
    /\ jout.op = "record" /\ jout.err = ""
    /\ jout.emitted # <<>>
    /\ jout.taken # <<>> /\ jout.taken[1] # EmptyEntry
    /\ \E S \in Sides :
          /\ side[S].need_degree_table
          /\ side[S].metrics.lookup_miss_count > shadow[S].metrics.lookup_miss_count

\* ------------------------------------------------------- write-path claims
\* table t2 is table t with exactly one more buffered write, op of row, which
\* replaces what was buffered under the row's key
WroteOnly(t, t2, op, row) ==
    /\ [key |-> TableKey(t, row), op |-> op, row |-> row] \in t2.mem_table
    /\ {w \in t2.mem_table : w.key # TableKey(t, row)}
          = {w \in t.mem_table : w.key # TableKey(t, row)}
    /\ \A w \in t2.mem_table : w.key = TableKey(t, row) => w.op = op /\ w.row = row
    /\ t2.committed = t.committed /\ t2.epoch = t.epoch /\ t2.pk_indices = t.pk_indices

\* the degree row of a row carrying degree d
DegreeRow(row, d) == Chain(OrderKey(row), <<Some(d)>>)

\* cache h2.inner is h.inner with (pk -> encoded) added to the entry of key if
\* key is resident, and h.inner itself if key is absent
CacheGains(h, h2, key, pk, encoded) ==
    /\ DOMAIN h2.inner = DOMAIN h.inner
    /\ \A k \in DOMAIN h.inner : k # key => h2.inner[k] = h.inner[k]
    /\ SlotResident(h, key) =>
          /\ SlotResident(h2, key)
          /\ DOMAIN h2.inner[key][1] = DOMAIN h.inner[key][1] \cup {pk}
          /\ h2.inner[key][1][pk] = encoded
          /\ \A p \in DOMAIN h.inner[key][1] : p # pk => h2.inner[key][1][p] = h.inner[key][1][p]

\* cache h2.inner is h.inner with pk removed from the entry of key if key is
\* resident (unchanged if the entry has no pk), and h.inner itself if key is
\* absent
CacheLoses(h, h2, key, pk) ==
    /\ DOMAIN h2.inner = DOMAIN h.inner
    /\ \A k \in DOMAIN h.inner : k # key => h2.inner[k] = h.inner[k]
    /\ SlotResident(h, key) =>
          /\ SlotResident(h2, key)
          /\ DOMAIN h2.inner[key][1] = DOMAIN h.inner[key][1] \ {pk}
          /\ \A p \in DOMAIN h2.inner[key][1] : h2.inner[key][1][p] = h.inner[key][1][p]

\* an operation named op has run to its end
Done(op) == StepOf(op) /\ panic' = ""

\* C11 (as claimed): insert(K, join_row) buffers the row in the state table
\* and a degree row with degree 0 in the degree table, whether or not K is
\* cached; it adds (pk -> encoded join_row) to the entry of K iff K is
\* resident and creates no slot for an absent K.
C11_InsertDegreeZero ==
    [][Done("insert") =>
        LET value == last'.arg IN
        /\ WroteOnly(hm.state, hm'.state, "insert", value.row)
        /\ WroteOnly(hm.degree_state, hm'.degree_state, "insert", DegreeRow(value.row, 0))
        /\ CacheGains(hm, hm', last'.key, PkOf(value.row), Encode(value))
    ]_vars

\* C11 (amended): insert(K, join_row) buffers the row in the state table and
\* the degree row (order key, join_row's degree) in the degree table, whether
\* or not K is cached; it adds (pk -> encoded join_row) to the entry of K iff
\* K is resident and creates no slot for an absent K.
C11_InsertWrites ==
    [][Done("insert") =>
        LET value == last'.arg IN
        /\ WroteOnly(hm.state, hm'.state, "insert", value.row)
        /\ WroteOnly(hm.degree_state, hm'.degree_state, "insert",
                     DegreeRow(value.row, value.degree))
        /\ CacheGains(hm, hm', last'.key, PkOf(value.row), Encode(value))
        /\ hm'.metrics = hm.metrics
    ]_vars

\* insert of a join row of non-zero degree into a resident entry, after an
\* insert under a key that is not cached
C11_Witness ==
    /\ last.op = "insert" /\ panic = ""
    /\ last.hit /\ last.arg.degree >= 1
    /\ DegreeRow(last.arg.row, last.arg.degree) \in TableView(hm.degree_state)
    /\ PkOf(last.arg.row) \in DOMAIN hm.inner[last.key][1]
    /\ \E row \in TableView(hm.state) : Project(row, join_key_indices) \notin DOMAIN hm.inner

\* C12: insert_row(K, row) and delete_row(K, row) write only the state table:
\* the degree table, buffered and committed, is unchanged; the entry of K, if
\* resident, gains the row with degree 0, respectively loses the row's pk.
C12_RowVariantsStateOnly ==
    [][/\ Done("insert_row") =>
            /\ WroteOnly(hm.state, hm'.state, "insert", last'.arg)
            /\ hm'.degree_state = hm.degree_state
            /\ CacheGains(hm, hm', last'.key, PkOf(last'.arg), Encode(JoinRow(last'.arg, 0)))
       /\ Done("delete_row") =>
            /\ WroteOnly(hm.state, hm'.state, "delete", last'.arg)
            /\ hm'.degree_state = hm.degree_state
            /\ CacheLoses(hm, hm', last'.key, PkOf(last'.arg))
    ]_vars

\* delete_row of a row out of a resident entry that insert_row had put there
C12_Witness ==
    /\ last.op = "delete_row" /\ panic = "" /\ last.hit
    /\ [key |-> TableKey(hm.state, last.arg), op |-> "delete", row |-> last.arg]
          \in hm.state.mem_table
    /\ PkOf(last.arg) \notin DOMAIN hm.inner[last.key][1]
    /\ hm.degree_state.mem_table = {} /\ hm.degree_state.committed = {}

\* C13: delete(K, join_row) buffers a delete of the row on the state table and
\* a delete of its degree row on the degree table in every case; it removes
\* the row's pk from the entry of K only if K is resident; when the entry
\* does not hold the pk, or K is not cached, the cache is left as it was and
\* the operation does not fail.
C13_DeleteWrites ==
    [][/\ Done("delete") =>
            LET value == last'.arg IN
            /\ WroteOnly(hm.state, hm'.state, "delete", value.row)
            /\ WroteOnly(hm.degree_state, hm'.degree_state, "delete",
                         DegreeRow(value.row, value.degree))
            /\ CacheLoses(hm, hm', last'.key, PkOf(value.row))
       /\ (StepOf("delete") /\ ~last'.found /\ ~SlotTaken(hm, last'.key)) =>
            /\ panic' = ""
            /\ hm'.inner = hm.inner
    ]_vars

\* delete of a stored row under a key whose resident entry does not hold the
\* row's pk
C13_Witness ==
    /\ last.op = "delete" /\ panic = ""
    /\ last.hit /\ ~last.found
    /\ [key |-> TableKey(hm.state, last.arg.row), op |-> "delete", row |-> last.arg.row]
          \in hm.state.mem_table
    /\ \E w \in hm.degree_state.mem_table :
          w.op = "delete" /\ Project(w.row, degree_order_key_indices) = OrderKey(last.arg.row)

\* the row an encoded join row holds
RowOf(encoded) == Decode(encoded).row

\* C14: inc_degree (dec_degree) on a row with degree d of the entry the caller
\* holds moves the encoded copy and the owned JoinRow to d+1 (d-1) and buffers
\* exactly one write on the degree table, which replaces the degree row of the
\* order key by (order key, d+1) (respectively d-1); the state table, the
\* cache and the other rows of the entry are not touched.
C14_DegreeMove ==
    [][\A op \in {"inc_degree", "dec_degree"} :
        Done(op) =>
            LET key == last'.key
                pk == last'.arg
                ref == held[key][pk]
                d == ref.degree
                to == IF op = "inc_degree" THEN d + 1 ELSE d - 1
                owned == IF op = "inc_degree"
                         THEN inc_degree(hm, ref, Decode(ref)).join_row
                         ELSE dec_degree(hm, ref, Decode(ref)).join_row
            IN  /\ to >= 0
                /\ held'[key][pk] = [ref EXCEPT !.degree = to]
                /\ owned = JoinRow(RowOf(ref), to)
                /\ DOMAIN held' = DOMAIN held
                /\ \A k \in DOMAIN held : DOMAIN held'[k] = DOMAIN held[k]
                /\ \A k \in DOMAIN held : \A p \in DOMAIN held[k] :
                      <<k, p>> # <<key, pk>> => held'[k][p] = held[k][p]
                /\ WroteOnly(hm.degree_state, hm'.degree_state, "insert",
                             DegreeRow(RowOf(ref), to))
                /\ hm'.state = hm.state
                /\ hm'.inner = hm.inner
                /\ hm'.metrics = hm.metrics
    ]_vars

\* inc_degree has moved a held row from degree 0 to 1, in memory and in the
\* degree table
C14_Witness ==
    /\ last.op = "inc_degree" /\ panic = ""
    /\ held[last.key][last.arg].degree = 1
    /\ DegreeRow(RowOf(held[last.key][last.arg]), 1) \in TableView(hm.degree_state)
    /\ DegreeRow(RowOf(held[last.key][last.arg]), 0) \notin TableView(hm.degree_state)

\* every degree in memory (cached entries, entries the caller holds) and every
\* non-NULL degree column the degree table shows or has committed is >= 0
DegreesNonNegative ==
    /\ \A key \in DOMAIN hm.inner :
          hm.inner[key] # <<>> =>
              \A pk \in DOMAIN hm.inner[key][1] : hm.inner[key][1][pk].degree >= 0
    /\ \A key \in DOMAIN held : \A pk \in DOMAIN held[key] : held[key][pk].degree >= 0
    /\ \A g \in TableView(hm.degree_state) \cup hm.degree_state.committed :
          g[Len(g)] # None => Unwrap(g[Len(g)]) >= 0

\* C15: a degree never drops below 0.  dec_degree on a row whose degree is 0
\* aborts with "Tried to decrement zero join row degree" before anything is
\* written: the degree table, the entry the caller holds and the cache are as
\* before.  In every reachable state every in-memory and stored degree is >= 0.
C15_DegreeNeverNegative ==
    /\ []DegreesNonNegative
    /\ [][(StepOf("dec_degree") /\ held[last'.key][last'.arg].degree = 0) =>
            /\ panic' = DEGREE_UNDERFLOW
            /\ hm' = hm
            /\ held' = held
       ]_vars

\* dec_degree has aborted on a held row of degree 0 whose degree row is stored
C15_Witness ==
    /\ panic = DEGREE_UNDERFLOW /\ last.op = "dec_degree"
    /\ held[last.key][last.arg].degree = 0
    /\ DegreeRow(RowOf(held[last.key][last.arg]), 0) \in TableView(hm.degree_state)

\* ------------------------------------------------------- degree of a record
\* the degree stored for row on side S
DegreeOf(sd, S, row) == CHOOSE d \in StoredDegrees(sd, S, row) : TRUE

RECURSIVE DegreeSum(_, _, _)
\* sum of the degrees stored on side S for the rows in rows
DegreeSum(sd, S, rows) ==
    IF rows = {} THEN 0
    ELSE LET m == CHOOSE x \in rows : TRUE
         IN  DegreeOf(sd, S, m) + DegreeSum(sd, S, rows \ {m})

\* the operator has processed a record without failing (every record looks
\* the opposite side up once; an eviction looks nothing up)
RecordDone ==
    /\ steps' = steps + 1
    /\ jout'.op = "record" /\ jout'.err = ""
    /\ Lookups(side'[Other(jout'.rec[1])]) = Lookups(side[Other(jout'.rec[1])]) + 1

\* C16 (as claimed): processing one +row on side S whose join key matches n
\* rows on side O that satisfy the predicate increases the sum of the degrees
\* of those n rows by exactly 1; one -row decreases it by exactly 1.
C16_SumMovesByOne ==
    [][RecordDone =>
        LET S == jout'.rec[1]
            O == Other(jout'.rec[1])
            matched == MatchesOf(side, S, jout'.rec[3])
        IN  (side[O].need_degree_table /\ matched # {}) =>
                DegreeSum(side', O, matched) =
                    DegreeSum(side, O, matched) + (IF jout'.rec[2] = "+" THEN 1 ELSE -1)
    ]_vars

\* C16 (amended): processing one +row on side S whose join key matches n rows
\* on a side O that keeps a degree table and that satisfy the predicate
\* increases the degree of each of those n rows by exactly 1, so their sum by
\* exactly n; one -row decreases each by exactly 1, their sum by n; the
\* degrees of all other rows of O are unchanged.
C16_EachMatchMovesByOne ==
    [][RecordDone =>
        LET S == jout'.rec[1]
            O == Other(jout'.rec[1])
            by == IF jout'.rec[2] = "+" THEN 1 ELSE -1
            matched == MatchesOf(side, S, jout'.rec[3])
        IN  side[O].need_degree_table =>
                /\ TableView(side'[O].state) = TableView(side[O].state)
                /\ \A m \in TableView(side[O].state) :
                      StoredDegrees(side', O, m) =
                          {DegreeOf(side, O, m) + (IF m \in matched THEN by ELSE 0)}
                /\ DegreeSum(side', O, matched) =
                      DegreeSum(side, O, matched) + by * Cardinality(matched)
    ]_vars

\* a +row has been processed that matched two rows of the opposite side, next
\* to a row there it did not match
C16_Witness ==
    /\ jout.op = "record" /\ jout.err = "" /\ jout.rec # <<>>
    /\ jout.rec[2] = "+"
    /\ side[Other(jout.rec[1])].need_degree_table
    /\ Cardinality(MatchesOf(side, jout.rec[1], jout.rec[3])) = 2
    /\ \A m \in MatchesOf(side, jout.rec[1], jout.rec[3]) :
          DegreeOf(side, Other(jout.rec[1]), m) >= 1

\* ------------------------------------------------------- flush claims
\* table t2 is table t committed to next_epoch: the rows a read of t observed
\* are published, nothing is buffered
Committed(t, t2, next_epoch) ==
    /\ t2.committed = TableView(t)
    /\ t2.mem_table = {}
    /\ t2.epoch = next_epoch
    /\ TableView(t2) = TableView(t)

\* C17: a flush(next_epoch) that succeeds commits the state table and the
\* degree table to next_epoch, after which both are at next_epoch and hold no
\* buffered writes, and moves lookup_miss_count and total_lookup_count into
\* the metrics counters, leaving both at 0; the cache is as before.
C17_FlushCommitsBoth ==
    [][Done("flush") =>
        LET next_epoch == hm.state.epoch + 1 IN
        /\ Committed(hm.state, hm'.state, next_epoch)
        /\ Committed(hm.degree_state, hm'.degree_state, next_epoch)
        /\ hm'.metrics.lookup_miss_count = 0
        /\ hm'.metrics.total_lookup_count = 0
        /\ hm'.metrics.join_lookup_miss_count =
              hm.metrics.join_lookup_miss_count + hm.metrics.lookup_miss_count
        /\ hm'.metrics.join_total_lookup_count =
              hm.metrics.join_total_lookup_count + hm.metrics.total_lookup_count
        /\ hm'.inner = hm.inner
    ]_vars

\* a flush has published a row and its degree row and moved a lookup that
\* missed into the metrics counters
C17_Witness ==
    /\ last.op = "flush" /\ panic = ""
    /\ hm.state.epoch = 1 /\ hm.degree_state.epoch = 1
    /\ hm.state.committed # {} /\ hm.degree_state.committed # {}
    /\ hm.metrics.join_lookup_miss_count >= 1 /\ hm.metrics.join_total_lookup_count >= 1
    /\ hm.metrics.lookup_miss_count = 0 /\ hm.metrics.total_lookup_count = 0

\* C18 (as claimed): when flush fails with a storage error on either table's
\* commit, the error is returned and no partial state is committed: neither
\* table has published the epoch's writes without the other, so the failed
\* flush leaves both tables with the rows they had committed.
C18_NoPartialCommit ==
    [][(StepOf("flush") /\ panic' # "") =>
        /\ panic' = STORAGE_ERROR
        /\ hm'.state.committed = hm.state.committed
        /\ hm'.degree_state.committed = hm.degree_state.committed
    ]_vars

\* C19 (as claimed): if the task is dropped at a suspension point (the fetch
\* inside take_state, either commit inside flush, the point between them),
\* the two tables are left in a consistent pre-commit state: the buffered
\* writes are discarded on both, the committed rows of both are those before
\* the operation, and both expose the same committed epochs.
C19_DropLeavesPreCommit ==
    [][StepOf("dropped") =>
        /\ hm'.state.mem_table = {} /\ hm'.degree_state.mem_table = {}
        /\ hm'.state.committed = hm.state.committed
        /\ hm'.degree_state.committed = hm.degree_state.committed
        /\ hm'.state.epoch = hm'.degree_state.epoch
    ]_vars

\* ------------------------------------------------------- state table claims
\* every write buffered in table t is visible to a read of table t2
WritesVisible(t, t2) ==
    \A w \in t.mem_table :
        IF w.op = "insert" THEN w.row \in TableView(t2)
        ELSE \A r \in TableView(t2) : TableKey(t2, r) # w.key

\* table t2 shows table t without the writes buffered in t
WritesGone(t, t2) ==
    /\ TableView(t2) = t.committed
    /\ t2.committed = t.committed
    /\ t2.mem_table = {}

\* table t2 is table t with its epoch published
WritesPublished(t, t2) ==
    /\ WritesVisible(t, t2)
    /\ t2.committed = TableView(t)
    /\ t2.mem_table = {}
    /\ t2.epoch = t.epoch + 1

\* C20: commit atomicity of a state table.  After commit(e -> e+1) succeeds
\* every write buffered during epoch e is visible to reads and published;
\* after the epoch is aborted (the commit fails) or the table is dropped
\* before the commit, none of the writes of e is visible.
C20_CommitAtomicity ==
    [][/\ StepOf("flush") =>
            /\ last'.arg \in {"ok", "degree_commit_failed"} =>
                  WritesPublished(hm.state, hm'.state)
            /\ last'.arg = "ok" => WritesPublished(hm.degree_state, hm'.degree_state)
            /\ last'.arg = "state_commit_failed" => WritesGone(hm.state, hm'.state)
            /\ last'.arg = "degree_commit_failed" =>
                  WritesGone(hm.degree_state, hm'.degree_state)
       /\ StepOf("dropped") =>
            /\ IF last'.arg = "degree_commit"
               THEN WritesPublished(hm.state, hm'.state)
               ELSE WritesGone(hm.state, hm'.state)
            /\ WritesGone(hm.degree_state, hm'.degree_state)
    ]_vars

\* a state table that has published the writes of one epoch and, its next
\* commit having failed, shows none of the writes of the next (the degree
\* table still buffers its share of them)
C20_Witness ==
    /\ last.op = "flush" /\ panic = STORAGE_ERROR /\ last.arg = "state_commit_failed"
    /\ hm.state.epoch = 1 /\ hm.state.committed # {}
    /\ hm.state.mem_table = {} /\ TableView(hm.state) = hm.state.committed
    /\ hm.degree_state.epoch = 1 /\ hm.degree_state.mem_table # {}

\* ------------------------------------------------------- lookup metrics
\* C29: every take_state adds 1 to total_lookup_count, and 1 to
\* lookup_miss_count exactly when the key is not in the cache, so that
\* lookup_miss_count <= total_lookup_count in every state; flush adds the two
\* counts to the labelled counters and resets both to 0, whatever its commits
\* answer.
C29_LookupMetrics ==
    /\ [](hm.metrics.lookup_miss_count <= hm.metrics.total_lookup_count)
    /\ [][/\ StepOf("take_state") =>
              /\ hm'.metrics.total_lookup_count = hm.metrics.total_lookup_count + 1
              /\ hm'.metrics.lookup_miss_count =
                    hm.metrics.lookup_miss_count +
                    (IF last'.key \in DOMAIN hm.inner THEN 0 ELSE 1)
              /\ hm'.metrics.join_lookup_miss_count = hm.metrics.join_lookup_miss_count
              /\ hm'.metrics.join_total_lookup_count = hm.metrics.join_total_lookup_count
          /\ StepOf("flush") =>
              /\ hm'.metrics.join_lookup_miss_count =
                    hm.metrics.join_lookup_miss_count + hm.metrics.lookup_miss_count
              /\ hm'.metrics.join_total_lookup_count =
                    hm.metrics.join_total_lookup_count + hm.metrics.total_lookup_count
              /\ hm'.metrics.total_lookup_count = 0
              /\ hm'.metrics.lookup_miss_count = 0
       ]_vars

\* a lookup has hit the cache after a flush that reported the lookup that
\* missed and reset the two counts
C29_Witness ==
    /\ last.op = "take_state" /\ last.hit /\ panic = ""
    /\ hm.metrics.total_lookup_count = 1
    /\ hm.metrics.lookup_miss_count = 0
    /\ hm.metrics.join_total_lookup_count = 1
    /\ hm.metrics.join_lookup_miss_count = 1

\* ------------------------------------------------------- empty epochs
\* table t2 shows what table t shows: the same rows to get_row and to every
\* prefix iteration
SameVisible(t, t2) ==
    /\ TableView(t2) = TableView(t)
    /\ \A key \in AllJoinKeys :
          /\ iter_with_pk_prefix(t2, key) = iter_with_pk_prefix(t, key)
          /\ iter_key_and_val(t2, key) = iter_key_and_val(t, key)

\* C22: committing an epoch in which a table has no buffered write changes
\* nothing visible of it: the rows it shows and the rows it has committed are
\* the same before and after, and a take_state that misses fetches the same
\* entry.
C22_EmptyCommitIdempotent ==
    [][StepOf("flush") =>
        /\ hm.state.mem_table = {} =>
              /\ SameVisible(hm.state, hm'.state)
              /\ hm'.state.committed = hm.state.committed
        /\ hm.degree_state.mem_table = {} =>
              /\ SameVisible(hm.degree_state, hm'.degree_state)
              /\ hm'.degree_state.committed = hm.degree_state.committed
        /\ hm.state.mem_table = {} /\ hm.degree_state.mem_table = {} =>
              \A key \in AllJoinKeys :
                  fetch_cached_state(hm', key) = fetch_cached_state(hm, key)
    ]_vars

\* a flush with nothing buffered has succeeded on tables that hold rows
\* committed by an earlier flush
C22_Witness ==
    /\ last.op = "flush" /\ last.arg = "ok" /\ last.reads = {}
    /\ hm.state.epoch = 2 /\ hm.degree_state.epoch = 2
    /\ hm.state.committed # {} /\ hm.degree_state.committed # {}

\* ------------------------------------------------------- degree width
\* The degrees a join produces are counts of matching rows: the values of
\* DegreeType that the signed degree column holds as they are.
CountedDegrees == 0..(2^(DegreeBits - 1) - 1)
\* the counts rows are inserted with: the smallest and the largest two
EdgeDegrees == {0, 1, 2^(DegreeBits - 1) - 2, 2^(DegreeBits - 1) - 1}

\* inc_degree on a held row whose count is below the largest of the column
IncDegreeCounted(key, pk) ==
    /\ Running
    /\ hm.need_degree_table
    /\ key \in DOMAIN held /\ pk \in DOMAIN held[key]
    /\ held[key][pk].degree + 1 \in CountedDegrees
    /\ LET r == inc_degree(hm, held[key][pk], Decode(held[key][pk])) IN
        /\ hm' = r.hm
        /\ held' = [held EXCEPT ![key][pk] = r.join_row_ref]
        /\ panic' = r.panic
    /\ last' = OpArg("inc_degree", key, FALSE, pk)

\* A side that keeps degrees, its rows inserted with counts at both ends of
\* what the column holds, their degrees moved, flushed, evicted and fetched again.
InitDegree ==
    /\ hm = NewJoinHashMap({}, {}, TRUE)
    /\ held = <<>>
    /\ panic = ""
    /\ last = Op("new", <<>>, FALSE, {})
    /\ steps = 0
    /\ NoJoin

NextDegree ==
    \/ \E key \in AllJoinKeys : \E row \in AllRows : \E degree \in EdgeDegrees :
          Insert(key, row, degree)
    \/ \E key \in AllJoinKeys : TakeState(key)
    \/ \E key \in AllJoinKeys : UpdateState(key)
    \/ \E key \in AllJoinKeys : \E pk \in {PkOf(r) : r \in AllRows} : IncDegreeCounted(key, pk)
    \/ \E key \in AllJoinKeys : \E pk \in {PkOf(r) : r \in AllRows} : DecDegree(key, pk)
    \/ Evict(DOMAIN hm.inner)
    \/ Flush("ok")

SpecDegree == InitDegree /\ [][NextDegree]_vars

\* the signed degree columns the degree table shows or has committed
StoredDegreeColumns(h) ==
    {g[Len(g)] : g \in TableView(h.degree_state) \cup h.degree_state.committed}

SplitIds == {1, 2}
source_pk_indices == <<1>>

\* encode_to_bytes of the split states of the model: one that is valid UTF-8
\* and one that is not (a byte >= 128 stands for an ill-formed sequence)
EncodedStates == {<<97>>, <<255>>}
Split(id, encoded) == [id |-> id, encoded |-> encoded]
AllSplits == {Split(id, encoded) : id \in SplitIds, encoded \in EncodedStates}

\* String::from_utf8_lossy: the characters of the bytes, U+FFFD for each
\* ill-formed byte
REPLACEMENT_CHARACTER == 65533
FromUtf8Lossy(bytes) ==
    [i \in 1..Len(bytes) |-> IF bytes[i] < 128 THEN bytes[i] ELSE REPLACEMENT_CHARACTER]

RECURSIVE AsBytes(_)
\* str::as_bytes: the UTF-8 encoding of the characters
AsBytes(s) ==
    IF s = <<>> THEN <<>>
    ELSE (IF Head(s) = REPLACEMENT_CHARACTER THEN <<239, 191, 189>> ELSE <<Head(s)>>)
         \o AsBytes(Tail(s))

\* get_row that reads the committed epochs only
get_row_committed(t, pk) ==
    LET rows == {r \in t.committed : TableKey(t, r) = MemcmpSerialize(pk)}
    IN  IF rows = {} THEN None ELSE Some(CHOOSE r \in rows : TRUE)

\* StateTable::get_row(pk): the row the table shows under pk, if any
get_row(t, pk) ==
    LET rows == {r \in TableView(t) : TableKey(t, r) = MemcmpSerialize(pk)}
    IN  IF rows = {} THEN None ELSE Some(CHOOSE r \in rows : TRUE)

\* SourceStateTableHandler::from_table_catalog and init_epoch
NewSourceStateTableHandler ==
    [state_store |-> [NewTable(source_pk_indices, {}) EXCEPT !.dist_key_indices = <<>>]]

\* SourceStateTableHandler::get
get(h, key) == get_row(h.state_store, <<Some(key)>>)

\* set that inserts without looking for a previous row
set_inserting(h, key, value) ==
    [handler |-> [h EXCEPT !.state_store =
                     StateTableInsert(@, <<Some(key), Some(FromUtf8Lossy(value))>>)],
     wrote |-> "insert"]

\* SourceStateTableHandler::set: [handler, wrote]
set(h, key, value) ==
    LET row == <<Some(key), Some(FromUtf8Lossy(value))>>
        prev_row == get(h, key)
    IN  IF prev_row # None
        THEN [handler |-> [h EXCEPT !.state_store =
                              StateTableUpdate(@, Unwrap(prev_row), row)],
              wrote |-> "update"]
        ELSE [handler |-> [h EXCEPT !.state_store = StateTableInsert(@, row)],
              wrote |-> "insert"]

STATES_EMPTY == "states require not null"

RECURSIVE SetEach(_, _, _, _, _)
\* the loop of take_snapshot from state i on; the get of state fail_at answers
\* with a storage error (none does when fail_at = 0)
SetEach(h, states, i, fail_at, wrote) ==
    IF i > Len(states) THEN [handler |-> h, err |-> "", wrote |-> wrote]
    ELSE IF i = fail_at THEN [handler |-> h, err |-> STORAGE_ERROR, wrote |-> wrote]
    ELSE CHOOSE r \in {SetEach(s.handler, states, i + 1, fail_at, Append(wrote, s.wrote)) :
                          s \in {set(h, states[i].id, states[i].encoded)}} : TRUE

\* take_snapshot that takes an empty list for a snapshot of nothing
take_snapshot_accepting_empty(h, states, fail_at) == SetEach(h, states, 1, fail_at, <<>>)

\* SourceStateTableHandler::take_snapshot: [handler, err, wrote]
take_snapshot(h, states, fail_at) ==
    IF states = <<>> THEN [handler |-> h, err |-> STATES_EMPTY, wrote |-> <<>>]
    ELSE SetEach(h, states, 1, fail_at, <<>>)

\* try_recover_from_state_store reading the split id column
try_recover_from_id_column(h, id) ==
    LET row == get(h, id)
    IN  IF row = None THEN None ELSE Some(<<Unwrap(Unwrap(row)[1])>>)

\* SourceStateTableHandler::try_recover_from_state_store: the bytes the split
\* is restored from, if the table shows a row for its id
try_recover_from_state_store(h, id) ==
    LET row == get(h, id)
    IN  IF row = None THEN None ELSE Some(AsBytes(Unwrap(Unwrap(row)[2])))

\* the source executor runs one more operation; a failed one runs none
SourceRunning ==
    /\ panic = ""
    /\ steps < MaxSteps
    /\ steps' = steps + 1
    /\ UNCHANGED <<hm, held, jvars, output, upstream, calc, reader>>

\* take_snapshot(states), the get of state fail_at failing in storage
TakeSnapshot(states, fail_at) ==
    /\ SourceRunning
    /\ \E r \in {take_snapshot(handler, states, fail_at)} :
        /\ handler' = r.handler
        /\ panic' = r.err
        /\ last' = OpArg("take_snapshot", <<>>, FALSE,
                         [states |-> states, wrote |-> r.wrote, fail_at |-> fail_at])

\* state_store.delete(row) on the row the table shows for a split id
StateStoreDelete(id) ==
    /\ SourceRunning
    /\ get(handler, id) # None
    /\ handler' = [handler EXCEPT !.state_store = StateTableDelete(@, Unwrap(get(handler, id)))]
    /\ last' = OpArg("delete", id, FALSE, <<>>)
    /\ UNCHANGED panic

\* state_store.commit(next epoch) at a barrier
StateStoreCommit(outcome) ==
    /\ SourceRunning
    /\ handler.state_store.epoch < MaxEpoch
    /\ handler' = [handler EXCEPT !.state_store =
                      IF outcome = "ok" THEN StateTableCommit(@, @.epoch + 1)
                      ELSE StateTableCommitFailed(@)]
    /\ panic' = IF outcome = "ok" THEN "" ELSE STORAGE_ERROR
    /\ last' = OpArg("commit", <<>>, FALSE, outcome)

\* try_recover_from_state_store(split) for a split with the given id
TryRecover(id) ==
    /\ SourceRunning
    /\ last.op # "try_recover"
    /\ last' = OpArg("try_recover", id, FALSE, try_recover_from_state_store(handler, id))
    /\ UNCHANGED <<handler, panic>>

\* the lists of states a snapshot is taken of: none, one, or two states
StateLists ==
    {<<>>} \cup {<<s>> : s \in AllSplits} \cup {<<s1, s2>> : s1, s2 \in AllSplits}

InitSource ==
    /\ handler = NewSourceStateTableHandler
    /\ hm = <<>>
    /\ held = <<>>
    /\ panic = ""
    /\ last = Op("new", <<>>, FALSE, {})
    /\ steps = 0
    /\ side = <<>>
    /\ shadow = <<>>
    /\ jout = Out("none", <<>>, <<>>, "")
    /\ shadow_out = Out("none", <<>>, <<>>, "")
    /\ output = <<>>
    /\ upstream = <<>>
    /\ NoCalc

NextSource ==
    \/ \E states \in StateLists : \E fail_at \in 0..Len(states) :
          TakeSnapshot(states, fail_at)
    \/ \E id \in SplitIds : StateStoreDelete(id)
    \/ \E outcome \in {"ok", "failed"} : StateStoreCommit(outcome)
    \/ \E id \in SplitIds : TryRecover(id)

SpecSource == InitSource /\ [][NextSource]_vars

\* ------------------------------------------------------- read-your-writes
\* the value the last of the first n states with this id carries
RECURSIVE LatestOf(_, _, _)
LatestOf(states, n, id) ==
    IF n = 0 THEN None
    ELSE IF states[n].id = id THEN Some(states[n].encoded)
    ELSE LatestOf(states, n - 1, id)

\* the iteration over the whole table is in ascending pk order and yields
\* exactly the rows get_row answers with, one per split id
IterationAgrees(h) ==
    LET it == iter_key_and_val(h.state_store, <<>>) IN
    /\ \A i \in 1..(Len(it) - 1) : BytesLess(it[i][1], it[i + 1][1])
    /\ \A i \in 1..Len(it) : get(h, Unwrap(it[i][2][1])) = Some(it[i][2])
    /\ \A id \in SplitIds :
          get(h, id) # None => \E i \in 1..Len(it) : it[i][2] = Unwrap(get(h, id))

\* C21: within one uncommitted epoch a read sees the writes buffered before
\* it.  After set(k, v), get(k) returns the row of v; after delete(k), get(k)
\* returns nothing; the get of every other id is as before; and the iteration
\* of the table yields, in pk order, exactly the rows get answers with,
\* buffered and committed alike.  set reads before it writes: it updates iff
\* the table showed a row for the id, also one written earlier in the epoch.
C21_ReadYourWrites ==
    /\ []IterationAgrees(handler)
    /\ [][/\ Done("take_snapshot") =>
              LET states == last'.arg.states IN
              /\ \A id \in SplitIds :
                    get(handler', id) =
                        IF LatestOf(states, Len(states), id) = None THEN get(handler, id)
                        ELSE Some(<<Some(id),
                                    Some(FromUtf8Lossy(
                                        Unwrap(LatestOf(states, Len(states), id))))>>)
              /\ Len(last'.arg.wrote) = Len(states)
              /\ \A i \in 1..Len(states) :
                    last'.arg.wrote[i] = "update" <=>
                        \/ get(handler, states[i].id) # None
                        \/ LatestOf(states, i - 1, states[i].id) # None
          /\ StepOf("delete") =>
              \A id \in SplitIds :
                  get(handler', id) = IF id = last'.key THEN None ELSE get(handler, id)
       ]_vars

\* an id has been set twice in an epoch that is not committed, the second set
\* updating the row the first inserted, beside the committed row of another id
C21_Witness ==
    /\ last.op = "take_snapshot" /\ panic = ""
    /\ last.arg.wrote = <<"insert", "update">>
    /\ last.arg.states[1].id = 1 /\ last.arg.states[2].id = 1
    /\ last.arg.states[1].encoded # last.arg.states[2].encoded
    /\ get(handler, 1) = Some(<<Some(1), Some(FromUtf8Lossy(last.arg.states[2].encoded))>>)
    /\ get_row_committed(handler.state_store, <<Some(1)>>) = None
    /\ get_row_committed(handler.state_store, <<Some(2)>>) # None
    /\ Len(iter_with_pk_prefix(handler.state_store, <<>>)) = 2

\* ------------------------------------------------------- vnode bitmaps
\* the vnode a join key maps to, as the two tables compute it for its rows
VnodeOfKey(h, key) == VnodeOf(h.state, key)
Owned(key) == VnodeOfKey(hm, key) \in hm.state.vnodes

\* update_vnode_bitmap(vnode_bitmap) at a barrier that carries a new bitmap;
\* hit tells whether the cache held an entry
UpdateVnodeBitmap(vnode_bitmap) ==
    /\ Running
    /\ last.op # "update_vnode_bitmap"
    /\ hm' = update_vnode_bitmap(hm, vnode_bitmap)
    /\ last' = OpArg("update_vnode_bitmap", <<>>, DOMAIN hm.inner # {},
                     [previous |-> hm.state.vnodes, new |-> vnode_bitmap])
    /\ UNCHANGED <<held, panic>>

\* A JoinHashMap created over stored rows, driven as the join operator drives
\* it (an entry taken out is put back before the next operation), by the
\* records of the vnodes it owns, its vnode bitmap updated at barriers.
SeedVnodeRows == {{}, {MkRow(1, 1), MkRow(2, 1)}}

InitVnode ==
    /\ \E state_rows \in SeedVnodeRows : \E need_degree_table \in BOOLEAN :
          hm = NewJoinHashMap(state_rows,
                              {build_degree_row(Project(r, state_order_key_indices), 0) :
                                   r \in state_rows},
                              need_degree_table)
    /\ held = <<>>
    /\ panic = ""
    /\ last = Op("new", <<>>, FALSE, {})
    /\ steps = 0
    /\ NoJoin

NextVnode ==
    \/ NoneHeld /\ \E key \in AllJoinKeys : TakeState(key)
    \/ \E key \in AllJoinKeys : UpdateState(key)
    \/ NoneHeld /\ \E dropped \in SUBSET AllJoinKeys : Evict(dropped)
    \/ NoneHeld /\ \E key \in AllJoinKeys : \E row \in AllRows :
          Owned(key) /\ Insert(key, row, 0)
    \/ NoneHeld /\ \E key \in AllJoinKeys : \E row \in AllRows :
          Owned(key) /\ InsertRow(key, row)
    \/ NoneHeld /\ \E key \in AllJoinKeys : \E row \in AllRows :
          Owned(key) /\ Delete(key, row)
    \/ NoneHeld /\ \E key \in AllJoinKeys : \E row \in AllRows :
          Owned(key) /\ DeleteRow(key, row)
    \/ NoneHeld /\ Flush("ok")
    \/ NoneHeld /\ \E vnode_bitmap \in SUBSET AllVnodes : UpdateVnodeBitmap(vnode_bitmap)

SpecVnode == InitVnode /\ [][NextVnode]_vars

\* table t2 is table t with the vnode bitmap vnode_bitmap installed
Installed(t, t2, vnode_bitmap) == t2 = [t EXCEPT !.vnodes = vnode_bitmap]

\* C23: update_vnode_bitmap(new) installs the bitmap on the state table and
\* on the degree table and touches nothing else of them; it clears the cache
\* iff new differs from the previous bitmap (vnodes added, removed, or both),
\* and leaves the cache unchanged when new = previous.
C23_BitmapUpdate ==
    [][StepOf("update_vnode_bitmap") =>
        /\ Installed(hm.state, hm'.state, last'.arg.new)
        /\ Installed(hm.degree_state, hm'.degree_state, last'.arg.new)
        /\ hm'.metrics = hm.metrics
        /\ last'.arg.new # hm.state.vnodes => hm'.inner = <<>>
        /\ last'.arg.new = hm.state.vnodes => hm'.inner = hm.inner
    ]_vars

\* a bitmap that adds a vnode to the previous one has cleared a cache that
\* held an entry
C23_Witness ==
    /\ last.op = "update_vnode_bitmap" /\ last.hit
    /\ last.arg.previous \subseteq last.arg.new /\ last.arg.previous # last.arg.new
    /\ hm.inner = <<>>
    /\ hm.state.vnodes = last.arg.new /\ hm.degree_state.vnodes = last.arg.new

\* the rows of an entry all belong to vnodes of the bitmap
RowsWithin(entry, h) ==
    \A pk \in DOMAIN entry : VnodeOf(h.state, RowOf(entry[pk])) \in h.state.vnodes

\* C24: after update_vnode_bitmap(b') with b' a strict subset of the previous
\* bitmap the cache holds no entry whose key maps outside b', and no later
\* take_state returns a row of a vnode outside the bitmap: the entries cached
\* and the entries handed out hold rows of owned vnodes only.
C24_VnodeShrinkEviction ==
    /\ [](/\ \A key \in DOMAIN hm.inner :
                hm.inner[key] # <<>> => RowsWithin(hm.inner[key][1], hm)
          /\ \A key \in DOMAIN held : RowsWithin(held[key], hm))
    /\ [][(/\ StepOf("update_vnode_bitmap")
            /\ last'.arg.new \subseteq hm.state.vnodes
            /\ last'.arg.new # hm.state.vnodes) =>
              \A key \in DOMAIN hm'.inner : VnodeOfKey(hm', key) \in last'.arg.new
       ]_vars

\* after a shrink, the second lookup of the map, a take_state of a key of the
\* vnode given up, has missed and returned no row, the row being still in
\* storage
C24_Witness ==
    /\ last.op = "take_state" /\ ~last.hit /\ panic = ""
    /\ ~Owned(last.key)
    /\ held[last.key] = EmptyEntry
    /\ \E row \in hm.state.committed : Project(row, join_key_indices) = last.key
    /\ hm.metrics.total_lookup_count = 2

\* ------------------------------------------------------- recovery
\* JoinHashMap::new and init(epoch) over the tables as storage holds them:
\* the committed epochs, nothing buffered, an empty cache, fresh counts
recreate(h) ==
    LET n == NewJoinHashMap(h.state.committed, h.degree_state.committed,
                            h.need_degree_table)
    IN  [n EXCEPT !.state.epoch = h.state.epoch,
                  !.degree_state.epoch = h.degree_state.epoch]

\* the operator is recreated from storage after a barrier whose flushes were
\* committed; the run without eviction goes on undisturbed
Restart ==
    /\ JoinRunning
    /\ jout.op = "barrier"
    /\ side' = [S \in Sides |-> recreate(side[S])]
    /\ UNCHANGED <<shadow, jout, shadow_out>>

NextRecovery ==
    \/ \E S \in Sides : \E op \in {"+", "-"} : \E row \in AllRows : Record(S, op, row)
    \/ \E outcome \in [Sides -> FlushOutcomes] : Barrier(outcome)
    \/ \E S \in Sides : \E dropped \in SUBSET AllJoinKeys : JoinEvict(S, dropped)
    \/ Restart

SpecRecovery == InitJoin /\ [][NextRecovery]_vars

\* what take_state(key) would hand out on side S of the maps sd
Rebuilt(sd, S, key) ==
    LET t == take_state(sd[S], key) IN [ret |-> t.ret, panic |-> t.panic]

\* C25: the cache is a cache.  While the operator has not failed, whatever
\* entries were evicted, and whenever the operator was recreated from
\* storage after a committed flush, a take_state(K) on either side hands out
\* the rows and degrees that it hands out in the run of the same input in
\* which nothing was evicted and nothing restarted, the two tables of each
\* side hold the same rows, and every step has produced the same output.
C25_Durability ==
    (side # <<>> /\ jout.err = "") =>
        /\ jout = shadow_out
        /\ \A S \in Sides :
              /\ TableView(side[S].state) = TableView(shadow[S].state)
              /\ TableView(side[S].degree_state) = TableView(shadow[S].degree_state)
              /\ \A key \in AllJoinKeys : Rebuilt(side, S, key) = Rebuilt(shadow, S, key)

\* the operator has just been recreated after a committed flush: a side's
\* cache is empty where the undisturbed run caches a row with a degree of 1
\* or more, which the degree table has committed
C25_Witness ==
    /\ jout.op = "barrier" /\ jout.err = ""
    /\ \E S \in Sides :
          /\ side[S].need_degree_table
          /\ side[S].inner = <<>> /\ side[S].metrics = NewMetrics
          /\ shadow[S].metrics # NewMetrics
          /\ \E key \in DOMAIN shadow[S].inner :
                /\ shadow[S].inner[key] # <<>>
                /\ \E pk \in DOMAIN shadow[S].inner[key][1] :
                      /\ shadow[S].inner[key][1][pk].degree >= 1
                      /\ DegreeRow(RowOf(shadow[S].inner[key][1][pk]),
                                   shadow[S].inner[key][1][pk].degree)
                            \in side[S].degree_state.committed

\* ------------------------------------------------------- interleavings
\* An inner join on one column, no other condition, no degree tables, fed
\* left +(1,10) +(2,10) +(3,20) and right +(10,x) +(20,y) +(10,z).  Rows are
\* <<join key, pk>> with join key 1 for 10 and 2 for 20; the pks number the
\* rows under a join key from 0 (left 1, 2, 3 are <<1,0>>, <<1,1>>, <<2,0>>,
\* right x, y, z are <<1,0>>, <<2,0>>, <<1,1>>), for which the remaining
\* condition Cond holds of every pair.
Input ==
    [L |-> <<MkRow(1, 0), MkRow(1, 1), MkRow(2, 0)>>,
     R |-> <<MkRow(1, 0), MkRow(2, 0), MkRow(1, 1)>>]

\* records of side S processed so far: each stored its row
Fed(S) == Cardinality(TableView(side[S].state))

\* the next record of side S is processed: steps 1, 3, 4, 5, and its output
\* goes downstream
Feed(S) ==
    /\ jout.err = ""
    /\ Fed(S) < Len(Input[S])
    /\ \E r \in {JoinRecord(side, S, "+", Input[S][Fed(S) + 1])} :
        /\ side' = r.sd
        /\ jout' = [r.out EXCEPT !.rec = <<S, "+", Input[S][Fed(S) + 1]>>]
        /\ output' = output \o r.out.emitted
    /\ UNCHANGED <<hm, held, panic, last, steps, shadow, shadow_out, handler, upstream, calc, reader>>

\* the memory manager evicts entries of side S between two records
FeedEvict(S, dropped) ==
    /\ JoinEvict(S, dropped)
    /\ jout.op = "record"

InitInterleave ==
    /\ side = [S \in Sides |-> NewJoinHashMap({}, {}, FALSE)]
    /\ shadow = <<>>
    /\ jout = Out("init", <<>>, <<>>, "")
    /\ shadow_out = Out("none", <<>>, <<>>, "")
    /\ hm = <<>>
    /\ held = <<>>
    /\ panic = ""
    /\ last = Op("none", <<>>, FALSE, {})
    /\ steps = 0
    /\ NoSource

NextInterleave ==
    \/ \E S \in Sides : Feed(S)
    \/ \E S \in Sides : \E dropped \in SUBSET AllJoinKeys : FeedEvict(S, dropped)

SpecInterleave == InitInterleave /\ [][NextInterleave]_vars

\* the pairs of the records processed so far that agree on the join column
JoinedPairs ==
    {<<"+", Chain(l, r)>> :
        <<l, r>> \in {p \in TableView(side["L"].state) \X TableView(side["R"].state) :
                        Project(p[1], join_key_indices) = Project(p[2], join_key_indices)}}

\* C26: in every interleaving of the two inputs that keeps each side's order
\* the output holds each pair of a left and a right row with equal join
\* column exactly once, whichever of the two arrived first: at every point
\* the pairs of the records processed so far, and once both inputs are
\* consumed the five rows (1,10,x), (1,10,z), (2,10,x), (2,10,z), (3,20,y).
C26_InterleavingIndependence ==
    /\ jout.err = ""
    /\ {output[i] : i \in 1..Len(output)} = JoinedPairs
    /\ Len(output) = Cardinality(JoinedPairs)
    /\ (Fed("L") = 3 /\ Fed("R") = 3) =>
          /\ Len(output) = 5
          /\ {output[i][2] : i \in 1..Len(output)} =
                {Chain(MkRow(1, 0), MkRow(1, 0)), Chain(MkRow(1, 0), MkRow(1, 1)),
                 Chain(MkRow(1, 1), MkRow(1, 0)), Chain(MkRow(1, 1), MkRow(1, 1)),
                 Chain(MkRow(2, 0), MkRow(2, 0))}

\* both inputs are consumed, the last record the right row z, whose two
\* matches had arrived before it and were fetched from storage after an
\* eviction
C26_Witness ==
    /\ Fed("L") = 3 /\ Fed("R") = 3 /\ Len(output) = 5
    /\ jout.op = "record" /\ jout.rec[1] = "R" /\ Len(jout.emitted) = 2
    /\ side["L"].metrics.lookup_miss_count = 3
    /\ steps >= 1

\* ------------------------------------------------------- NULL join keys
\* rows whose join column is NULL, and the rows of join key 1
NullKeyRows == {<<None, Some(pk)>> : pk \in Pks}
NullableRows == NullKeyRows \cup {MkRow(1, pk) : pk \in Pks}

\* Both sides are built with the same null_matched bits.
InitNull ==
    /\ \E need_degree_table \in [Sides -> BOOLEAN] : \E bit \in BOOLEAN :
          side = [S \in Sides |->
                     [NewJoinHashMap({}, {}, need_degree_table[S])
                          EXCEPT !.null_matched = <<bit>>]]
    /\ shadow = side
    /\ jout = Out("init", <<>>, <<>>, "")
    /\ shadow_out = jout
    /\ hm = <<>>
    /\ held = <<>>
    /\ panic = ""
    /\ last = Op("none", <<>>, FALSE, {})
    /\ steps = 0
    /\ NoSource

NextNull ==
    \/ \E S \in Sides : \E op \in {"+", "-"} : \E row \in NullableRows :
          Record(S, op, row)
    \/ \E S \in Sides : \E dropped \in SUBSET {<<None>>, JoinKey(1)} : JoinEvict(S, dropped)

SpecNull == InitNull /\ [][NextNull]_vars

\* the step is the processing of a record of side S
RecordOf(S) ==
    /\ steps' = steps + 1
    /\ jout'.op = "record" /\ jout'.rec # <<>> /\ jout'.rec[1] = S
    /\ side'[S].state.mem_table # side[S].state.mem_table

\* C27: a record of side S whose join key has a NULL component with the
\* null_matched bit clear joins nothing and probes nothing: no joined row is
\* output (nothing at all by a side that does not output unmatched rows),
\* the opposite side's map is untouched, no lookup counted, and the record is
\* stored on (a - record removed from) its own side.  With the bit set the
\* opposite side is probed.
C27_NullNoMatch ==
    [][\A S \in Sides :
        (RecordOf(S) /\ jout'.rec[3][1] = None) =>
            IF ~side[S].null_matched[1]
            THEN /\ jout'.taken = <<>>
                 /\ side'[Other(S)] = side[Other(S)]
                 /\ \A i \in 1..Len(jout'.emitted) :
                       jout'.emitted[i][2] = JoinOutput(S, jout'.rec[3], NullRow)
                 /\ ~side[S].need_degree_table => jout'.emitted = <<>>
                 /\ jout'.err = ""
                 /\ (jout'.rec[2] = "+") = (jout'.rec[3] \in TableView(side'[S].state))
            ELSE Lookups(side'[Other(S)]) = Lookups(side[Other(S)]) + 1
    ]_vars

\* with null_matched = [false] on an inner join, a left and a right row with
\* NULL join column have been processed: both are stored, nothing was output
\* and neither side was probed
C27_Witness ==
    /\ jout.op = "record" /\ jout.err = "" /\ jout.emitted = <<>> /\ jout.taken = <<>>
    /\ jout.rec[3][1] = None
    /\ \A S \in Sides :
          /\ ~side[S].need_degree_table
          /\ side[S].null_matched = <<FALSE>>
          /\ Lookups(side[S]) = 0
          /\ \E row \in NullKeyRows : row \in TableView(side[S].state)

\* ------------------------------------------------------- barrier alignment
\* Each input delivers records and the barriers of the shared barrier stream.
\* An input that has delivered the barrier of an epoch is not read until the
\* other has delivered it too; then the operator flushes both sides and
\* forwards the barrier.  upstream[S].queue is what S has still to deliver,
\* upstream[S].barrier the epoch of the barrier S waits at (0 for none).
BarrierItem(epoch) == <<"barrier", epoch>>
IsBarrier(item) == item[1] = "barrier"

\* the inputs of a side: at most one record before and after the barrier of
\* epoch 1
Queues(S) ==
    {pre \o <<BarrierItem(1)>> \o post :
        pre \in {<<>>, << <<"+", MkRow(1, 1)>> >>},
        post \in {<<>>, << <<"+", MkRow(1, 2)>> >>}}

Aligned(e) == \A S \in Sides : upstream[S].barrier = e

\* the next item of side S is a record: it is processed and its output sent
Process(S) ==
    /\ jout.err = ""
    /\ upstream[S].barrier = 0
    /\ upstream[S].queue # <<>> /\ ~IsBarrier(Head(upstream[S].queue))
    /\ \E item \in {Head(upstream[S].queue)} :
       \E r \in {JoinRecord(side, S, item[1], item[2])} :
        /\ side' = r.sd
        /\ jout' = [r.out EXCEPT !.rec = <<S, item[1], item[2]>>]
        /\ output' = output \o r.out.emitted
    /\ upstream' = [upstream EXCEPT ![S].queue = Tail(@)]
    /\ UNCHANGED <<hm, held, panic, last, steps, shadow, shadow_out, handler, calc, reader>>

\* the next item of side S is a barrier: S waits at it
BarrierArrives(S) ==
    /\ jout.err = ""
    /\ upstream[S].barrier = 0
    /\ upstream[S].queue # <<>> /\ IsBarrier(Head(upstream[S].queue))
    /\ upstream' = [upstream EXCEPT ![S].queue = Tail(@),
                                    ![S].barrier = Head(upstream[S].queue)[2]]
    /\ jout' = [Out("aligning", <<>>, <<>>, "") EXCEPT !.rec = <<S>>]
    /\ UNCHANGED <<hm, held, panic, last, steps, side, shadow, shadow_out, handler, output, calc, reader>>

\* both sides wait at the barrier of one epoch: flush on both sides
CommitBoth(outcome) ==
    /\ jout.err = "" /\ jout.op = "aligning"
    /\ \E e \in 1..MaxEpoch : Aligned(e)
    /\ outcome["L"] # "ok" => outcome["R"] = "ok"
    /\ \E r \in {JoinBarrier(side, outcome)} :
        /\ side' = r.sd
        /\ jout' = r.out
    /\ UNCHANGED <<hm, held, panic, last, steps, shadow, shadow_out, handler, output,
                   upstream, calc, reader>>

\* both flushes have returned Ok: the barrier goes downstream and both inputs
\* are read again
Forward ==
    /\ jout.err = "" /\ jout.op = "barrier"
    /\ \E e \in 1..MaxEpoch : Aligned(e)
    /\ output' = Append(output, BarrierItem(upstream["L"].barrier))
    /\ upstream' = [S \in Sides |-> [upstream[S] EXCEPT !.barrier = 0]]
    /\ jout' = Out("forwarded", <<>>, <<>>, "")
    /\ UNCHANGED <<hm, held, panic, last, steps, side, shadow, shadow_out, handler, calc, reader>>

InitBarrier ==
    /\ \E need_degree_table \in [Sides -> BOOLEAN] :
          side = [S \in Sides |-> NewJoinHashMap({}, {}, need_degree_table[S])]
    /\ \E queue \in [Sides -> Queues("L")] :
          upstream = [S \in Sides |-> [queue |-> queue[S], barrier |-> 0]]
    /\ shadow = <<>>
    /\ jout = Out("init", <<>>, <<>>, "")
    /\ shadow_out = Out("none", <<>>, <<>>, "")
    /\ hm = <<>>
    /\ held = <<>>
    /\ panic = ""
    /\ last = Op("none", <<>>, FALSE, {})
    /\ steps = 0
    /\ handler = <<>>
    /\ output = <<>>
    /\ NoCalc

NextBarrier ==
    \/ \E S \in Sides : Process(S)
    \/ \E S \in Sides : BarrierArrives(S)
    \/ \E outcome \in [Sides -> FlushOutcomes] : CommitBoth(outcome)
    \/ Forward

SpecBarrier == InitBarrier /\ [][NextBarrier]_vars

\* the tables of both sides have committed up to epoch e and buffer nothing
FlushedBoth(sd, e) ==
    \A S \in Sides :
        /\ sd[S].state.epoch = e /\ sd[S].state.mem_table = {}
        /\ sd[S].degree_state.epoch = e /\ sd[S].degree_state.mem_table = {}

\* barriers sent downstream so far
Forwarded == {output[i][2] : i \in {j \in 1..Len(output) : IsBarrier(output[j])}}

\* C28: a table commits an epoch only in a step taken when both inputs have
\* delivered the barrier of that epoch; the barrier of epoch e is sent
\* downstream only when the flushes of both sides have completed, all four
\* tables standing at e with nothing buffered; and a record is processed only
\* while its input does not wait at a barrier, so that what the records
\* after a barrier produce follows the barrier in the output.
C28_BarrierOrdering ==
    /\ [](\A S \in Sides : upstream[S].barrier # 0 =>
              upstream[S].barrier \notin Forwarded)
    /\ [](\A e \in Forwarded : \A S \in Sides :
              side[S].state.epoch >= e /\ side[S].degree_state.epoch >= e)
    /\ [][/\ (\E S \in Sides : side'[S].state.epoch # side[S].state.epoch
                                 \/ side'[S].degree_state.epoch # side[S].degree_state.epoch)
                => (Aligned(side["L"].state.epoch + 1) /\ output' = output)
          /\ Len(output') > Len(output) /\ IsBarrier(output'[Len(output')])
                => /\ Aligned(output'[Len(output')][2])
                   /\ FlushedBoth(side, output'[Len(output')][2])
                   /\ side' = side
          /\ (jout'.op = "record" /\ jout' # jout)
                => /\ upstream[jout'.rec[1]].barrier = 0
                   /\ \A e \in 1..MaxEpoch :
                         BarrierItem(e) \in {upstream'[jout'.rec[1]].queue[i] :
                                                i \in 1..Len(upstream'[jout'.rec[1]].queue)}
                             => e \notin Forwarded
       ]_vars

\* the barrier of epoch 1 was forwarded after both flushes, and a record that
\* followed it on its input has since produced output that follows it
C28_Witness ==
    /\ jout.op = "record" /\ jout.err = "" /\ jout.emitted # <<>>
    /\ Len(output) >= 2
    /\ \E i \in 1..(Len(output) - 1) : output[i] = BarrierItem(1)
    /\ ~IsBarrier(output[Len(output)])
    /\ FlushedBoth([S \in Sides |-> [side[S] EXCEPT !.state.mem_table = {},
                                                     !.degree_state.mem_table = {}]], 1)
    /\ \E S \in Sides : side[S].state.committed # {}

\* ------------------------------------------------------- common library
\* The functions of the common library and the source readers keep no join
\* or source-handler state: while one of them runs, the rest stays absent.
other_vars == <<hm, held, panic, last, steps, side, shadow, jout, shadow_out, handler, output,
               upstream>>
NoOther ==
    /\ hm = <<>>
    /\ held = <<>>
    /\ panic = ""
    /\ last = Op("none", <<>>, FALSE, {})
    /\ steps = 0
    /\ side = <<>>
    /\ shadow = <<>>
    /\ jout = Out("none", <<>>, <<>>, "")
    /\ shadow_out = Out("none", <<>>, <<>>, "")
    /\ handler = <<>>
    /\ output = <<>>
    /\ upstream = <<>>

\* ------------------------------------------------------- row ordering
\* std::cmp::Ordering
Less == "Less"
Equal == "Equal"
Greater == "Greater"

\* Option<ScalarImpl>::partial_cmp: None sorts before Some, two Some by value
DatumPartialCmp(a, b) ==
    IF a = None /\ b = None THEN Some(Equal)
    ELSE IF a = None THEN Some(Less)
    ELSE IF b = None THEN Some(Greater)
    ELSE IF Unwrap(a) < Unwrap(b) THEN Some(Less)
    ELSE IF Unwrap(a) > Unwrap(b) THEN Some(Greater)
    ELSE Some(Equal)

RECURSIVE VecPartialCmp(_, _)
\* Vec<Datum>::partial_cmp: the first pair of datums that is not Equal decides;
\* when one vector runs out first, the lengths decide
VecPartialCmp(a, b) ==
    IF a = <<>> /\ b = <<>> THEN Some(Equal)
    ELSE IF a = <<>> THEN Some(Less)
    ELSE IF b = <<>> THEN Some(Greater)
    ELSE IF DatumPartialCmp(Head(a), Head(b)) # Some(Equal)
         THEN DatumPartialCmp(Head(a), Head(b))
    ELSE VecPartialCmp(Tail(a), Tail(b))

\* partial_cmp without the check of the lengths
partial_cmp_of_vectors(self, other) == VecPartialCmp(self, other)

\* impl PartialOrd for Row
partial_cmp(self, other) ==
    IF Len(self) # Len(other) THEN None
    ELSE VecPartialCmp(self, other)

CANNOT_COMPARE == "cannot compare rows with different lengths"

\* impl Ord for Row: [ordering, panic]; no ordering is returned by a panic
cmp(self, other) ==
    IF partial_cmp(self, other) = None
    THEN [ordering |-> <<>>, panic |-> CANNOT_COMPARE]
    ELSE [ordering |-> partial_cmp(self, other), panic |-> ""]

\* rows of up to two datums, NULL among them
CmpDatums == {None, Some(0), Some(1)}
CmpRows == {<<>>} \cup {<<a>> : a \in CmpDatums} \cup {<<a, b>> : a \in CmpDatums, b \in CmpDatums}

PartialCmp ==
    /\ calc.op = "none"
    /\ calc' = [calc EXCEPT !.op = "partial_cmp",
                            !.result = partial_cmp(calc.self, calc.other)]
    /\ UNCHANGED <<other_vars, reader>>

Cmp ==
    /\ calc.op = "none"
    /\ \E r \in {cmp(calc.self, calc.other)} :
          calc' = [calc EXCEPT !.op = "cmp", !.result = r.ordering, !.panic = r.panic]
    /\ UNCHANGED <<other_vars, reader>>

InitRowCmp ==
    /\ \E self \in CmpRows, other \in CmpRows :
          calc = [op |-> "none", self |-> self, other |-> other, result |-> <<>>,
                  panic |-> ""]
    /\ reader = <<>>
    /\ NoOther

NextRowCmp == PartialCmp \/ Cmp

SpecRowCmp == InitRowCmp /\ [][NextRowCmp]_vars

\* position of the first column in which two rows of one length differ
\* (0 when they are equal)
FirstDifference(a, b) ==
    IF a = b THEN 0 ELSE CHOOSE i \in 1..Len(a) : a[i] # b[i] /\ \A j \in 1..(i - 1) : a[j] = b[j]

\* NULL before every value, values by their order
DatumLess(a, b) == (a = None /\ b # None) \/ (a # None /\ b # None /\ Unwrap(a) < Unwrap(b))

\* lexicographic order of two rows of one length
Lexicographic(a, b) ==
    IF FirstDifference(a, b) = 0 THEN Equal
    ELSE IF DatumLess(a[FirstDifference(a, b)], b[FirstDifference(a, b)]) THEN Less
    ELSE Greater

\* C31: partial_cmp of two rows of different lengths returns None and cmp of
\* them panics with 'cannot compare rows with different lengths' and returns
\* no ordering; for rows of one length both return the lexicographic
\* comparison of the datums.
C31_RowCmp ==
    /\ calc.op = "partial_cmp" =>
          IF Len(calc.self) # Len(calc.other) THEN calc.result = None
          ELSE calc.result = Some(Lexicographic(calc.self, calc.other))
    /\ calc.op = "cmp" =>
          IF Len(calc.self) # Len(calc.other)
          THEN calc.panic = CANNOT_COMPARE /\ calc.result = <<>>
          ELSE calc.panic = "" /\ calc.result = Some(Lexicographic(calc.self, calc.other))

\* cmp has panicked on a row that is a proper prefix of the other
C31_Witness ==
    /\ calc.op = "cmp" /\ calc.panic = CANNOT_COMPARE
    /\ calc.self = <<Some(1)>> /\ calc.other = <<Some(1), None>>

\* ------------------------------------------------------- timestamps
\* A timestamp (NaiveDateTimeWrapper) is [year, month, day, secs, nano]: a
\* date of the proleptic Gregorian calendar, the seconds since midnight and
\* the nanoseconds of the second.  An interval (IntervalUnit) is
\* [months, days, ms].

\* chrono::NaiveDate: the years it represents
MIN_YEAR == -262144
MAX_YEAR == 262143

LEAP_DAYS == <<0, 31, 29, 31, 30, 31, 30, 31, 31, 30, 31, 30, 31>>
NORMAL_DAYS == <<0, 31, 28, 31, 30, 31, 30, 31, 31, 30, 31, 30, 31>>

\* i32 division, which truncates toward zero
TruncDiv(a, b) == IF a >= 0 THEN a \div b ELSE -((-a) \div b)

is_leap_year(year) == year % 4 = 0 /\ (year % 100 # 0 \/ year % 400 = 0)

\* the days of every month taken from NORMAL_DAYS
get_mouth_days_normal(year, month) == NORMAL_DAYS[month + 1]

\* the days of the year-month (the slices are indexed from 0)
get_mouth_days(year, month) ==
    IF is_leap_year(year) THEN LEAP_DAYS[month + 1] ELSE NORMAL_DAYS[month + 1]

\* chrono: days of a date since 1970-01-01
DaysFromCivil(year, month, day) ==
    LET y == IF month <= 2 THEN year - 1 ELSE year
        era == y \div 400
        yoe == y - era * 400
        doy == (153 * (IF month > 2 THEN month - 3 ELSE month + 9) + 2) \div 5 + day - 1
        doe == yoe * 365 + yoe \div 4 - yoe \div 100 + doy
    IN  era * 146097 + doe - 719468

\* chrono: the date a number of days after 1970-01-01
CivilFromDays(days) ==
    LET z == days + 719468
        era == z \div 146097
        doe == z - era * 146097
        yoe == (doe - doe \div 1460 + doe \div 36524 - doe \div 146096) \div 365
        doy == doe - (365 * yoe + yoe \div 4 - yoe \div 100)
        mp == (5 * doy + 2) \div 153
        month == IF mp < 10 THEN mp + 3 ELSE mp - 9
    IN  [year |-> yoe + era * 400 + (IF month <= 2 THEN 1 ELSE 0),
         month |-> month,
         day |-> doy - (153 * mp + 2) \div 5 + 1]

MIN_DAYS == DaysFromCivil(MIN_YEAR, 1, 1)
MAX_DAYS == DaysFromCivil(MAX_YEAR, 12, 31)

\* NaiveDate::from_ymd_opt
from_ymd_opt(year, month, day) ==
    IF /\ year \in MIN_YEAR..MAX_YEAR
       /\ month \in 1..12
       /\ day >= 1 /\ DaysFromCivil(year, month, day) < DaysFromCivil(year, month + 1, 1)
    THEN Some([year |-> year, month |-> month, day |-> day])
    ELSE None

\* NaiveDateTime::new(date, time)
NaiveDateTime(date, secs, nano) ==
    [year |-> date.year, month |-> date.month, day |-> date.day, secs |-> secs,
     nano |-> nano]

\* NaiveDateTime::checked_add_signed of whole days and of milliseconds: the
\* time of day wraps and carries into the date, which must stay in range
checked_add_signed(datetime, days, ms) ==
    LET nanos == datetime.nano + (ms % 1000) * 1000000
        secs == datetime.secs + ms \div 1000 + nanos \div 1000000000
        date == DaysFromCivil(datetime.year, datetime.month, datetime.day) + days
                    + secs \div 86400
    IN  IF date \in MIN_DAYS..MAX_DAYS
        THEN Some(NaiveDateTime(CivilFromDays(date), secs % 86400, nanos % 1000000000))
        ELSE None

\* the month stage of checked_add: [year, month, day] before from_ymd_opt
add_months(date, interval_months) ==
    LET year_diff == TruncDiv(interval_months, 12)
        month_diff == interval_months - year_diff * 12
        month == date.month + month_diff
        year == date.year + year_diff
        y == IF month > 12 THEN year + 1 ELSE IF month <= 0 THEN year - 1 ELSE year
        mo == IF month > 12 THEN month - 12 ELSE IF month <= 0 THEN month + 12 ELSE month
    IN  [year |-> y, month |-> mo,
         day |-> IF date.day <= get_mouth_days(y, mo) THEN date.day
                 ELSE get_mouth_days(y, mo)]

\* impl CheckedAdd<IntervalUnit> for NaiveDateTimeWrapper
checked_add(self, rhs) ==
    LET moved == IF rhs.months # 0
                 THEN CHOOSE r \in {from_ymd_opt(d.year, d.month, d.day) :
                                      d \in {add_months(self, rhs.months)}} : TRUE
                 ELSE Some([year |-> self.year, month |-> self.month, day |-> self.day])
    IN  IF moved = None THEN None
        ELSE LET plus_days ==
                     checked_add_signed(NaiveDateTime(Unwrap(moved), self.secs, self.nano),
                                        rhs.days, 0)
             IN  IF plus_days = None THEN None
                 ELSE checked_add_signed(Unwrap(plus_days), 0, rhs.ms)

\* the timestamps and intervals the addition is applied to
AddYears == {MIN_YEAR, -1, 0, 1900, 1970, 1972, 2000, MAX_YEAR}
AddDates ==
    {d \in [year : AddYears, month : {1, 2, 3, 12}, day : {1, 28, 29, 31}] :
        from_ymd_opt(d.year, d.month, d.day) # None}
AddTimes == {<<0, 0>>, <<86399, 999000000>>}
AddIntervals == [months : {-25, -13, -12, -11, -1, 0, 1, 11, 12, 13, 25},
                 days : {-1, 0, 1},
                 ms : {-86400000, -1, 0, 1}]

CheckedAdd ==
    /\ calc.op = "none"
    /\ calc' = [calc EXCEPT !.op = "checked_add",
                            !.result = checked_add(calc.self, calc.other)]
    /\ UNCHANGED <<other_vars, reader>>

\* the month stage alone, as checked_add runs it when months # 0
AddMonths ==
    /\ calc.op = "none"
    /\ calc.other.months # 0
    /\ calc' = [calc EXCEPT !.op = "add_months",
                            !.result = add_months(calc.self, calc.other.months)]
    /\ UNCHANGED <<other_vars, reader>>

InitAdd ==
    /\ \E date \in AddDates, time \in AddTimes, rhs \in AddIntervals :
          calc = [op |-> "none", self |-> NaiveDateTime(date, time[1], time[2]),
                  other |-> rhs, result |-> <<>>, panic |-> ""]
    /\ reader = <<>>
    /\ NoOther

NextAdd == CheckedAdd \/ AddMonths

SpecAdd == InitAdd /\ [][NextAdd]_vars

\* the month reached by counting months from year 0, and the last day of it
MonthIndex(ts, months) == ts.year * 12 + (ts.month - 1) + months
LastDay(year, month) ==
    IF month = 12 THEN 31
    ELSE DaysFromCivil(year, month + 1, 1) - DaysFromCivil(year, month, 1)
ByCalendar(ts, months) ==
    [year |-> MonthIndex(ts, months) \div 12,
     month |-> (MonthIndex(ts, months) % 12) + 1,
     day |-> IF ts.day <= LastDay(MonthIndex(ts, months) \div 12, (MonthIndex(ts, months) % 12) + 1)
             THEN ts.day
             ELSE LastDay(MonthIndex(ts, months) \div 12, (MonthIndex(ts, months) % 12) + 1)]

\* a timestamp as milliseconds of the day and day number (the sub-millisecond
\* part is not changed by an interval)
DayNumber(ts) == DaysFromCivil(ts.year, ts.month, ts.day)
MsOfDay(ts) == ts.secs * 1000 + ts.nano \div 1000000
InRange(day_number) == day_number \in MIN_DAYS..MAX_DAYS

\* C32: the month stage moves the date by calendar months, the month of the
\* result in 1..12 and the day clamped to the last day of that month
\* (1970-01-31 + 1 month = 1970-02-28); the days are added next and the
\* milliseconds last; the sum is None exactly when the month stage, the day
\* stage or the millisecond stage leaves the representable range; with
\* months = 0 the month stage leaves the date as it is.
C32_CheckedAdd ==
    /\ calc.op = "add_months" =>
          /\ calc.result = ByCalendar(calc.self, calc.other.months)
          /\ calc.result.month \in 1..12
          /\ calc.result.day = calc.self.day \/ calc.result.day = LastDay(calc.result.year, calc.result.month)
    /\ calc.op = "checked_add" =>
          LET moved == ByCalendar(calc.self, calc.other.months)
              after_months == DayNumber(moved)
              after_days == after_months + calc.other.days
              ms == MsOfDay(calc.self) + calc.other.ms
              after_ms == after_days + ms \div 86400000
          IN  /\ calc.other.months = 0 =>
                    moved = [year |-> calc.self.year, month |-> calc.self.month,
                             day |-> calc.self.day]
              /\ (calc.result = None) <=>
                    \/ moved.year \notin MIN_YEAR..MAX_YEAR
                    \/ ~InRange(after_days)
                    \/ ~InRange(after_ms)
              /\ calc.result # None =>
                    /\ DayNumber(Unwrap(calc.result)) = after_ms
                    /\ MsOfDay(Unwrap(calc.result)) = ms % 86400000
                    /\ Unwrap(calc.result).nano % 1000000 = calc.self.nano % 1000000
                    /\ from_ymd_opt(Unwrap(calc.result).year, Unwrap(calc.result).month,
                                    Unwrap(calc.result).day) # None
              /\ (/\ calc.self = NaiveDateTime([year |-> 1970, month |-> 1, day |-> 31], 0, 0)
                  /\ calc.other = [months |-> 1, days |-> 0, ms |-> 0]) =>
                    calc.result =
                        Some(NaiveDateTime([year |-> 1970, month |-> 2, day |-> 28], 0, 0))

\* 2000-01-31 23:59:59.999 plus 1 month, 1 day and 1 ms: clamped to February
\* 29, then carried through both later stages into March 2
C32_Witness ==
    /\ calc.op = "checked_add"
    /\ calc.self = NaiveDateTime([year |-> 2000, month |-> 1, day |-> 31], 86399, 999000000)
    /\ calc.other = [months |-> 1, days |-> 1, ms |-> 1]
    /\ calc.result = Some(NaiveDateTime([year |-> 2000, month |-> 3, day |-> 2], 0, 0))

\* ------------------------------------------------------- truncation
\* NaiveDateWrapper::from_ymd_uncheck(..).into(): the date at 00:00:00
AtMidnight(year, month, day) ==
    NaiveDateTime([year |-> year, month |-> month, day |-> day], 0, 0)

\* Timelike::hour / minute of the seconds since midnight
HourOf(ts) == ts.secs \div 3600
MinuteOf(ts) == (ts.secs % 3600) \div 60

\* Datelike::weekday().num_days_from_monday(); 1970-01-01 is a Thursday
DaysFromMonday(ts) == (DaysFromCivil(ts.year, ts.month, ts.day) + 3) % 7

truncate_micros(ts) == [ts EXCEPT !.nano = (ts.nano \div 1000) * 1000]
truncate_millis(ts) == [ts EXCEPT !.nano = (ts.nano \div 1000000) * 1000000]
truncate_second(ts) == [ts EXCEPT !.nano = 0]
truncate_minute(ts) == [ts EXCEPT !.secs = HourOf(ts) * 3600 + MinuteOf(ts) * 60, !.nano = 0]
truncate_hour(ts) == [ts EXCEPT !.secs = HourOf(ts) * 3600, !.nano = 0]
truncate_day(ts) == AtMidnight(ts.year, ts.month, ts.day)
\* date.week(Weekday::Mon).first_day()
truncate_week(ts) ==
    NaiveDateTime(CivilFromDays(DaysFromCivil(ts.year, ts.month, ts.day) - DaysFromMonday(ts)),
                  0, 0)
\* date.with_day(1)
truncate_month(ts) == AtMidnight(ts.year, ts.month, 1)
truncate_quarter(ts) == AtMidnight(ts.year, ((ts.month - 1) \div 3) * 3 + 1, 1)
truncate_year(ts) == AtMidnight(ts.year, 1, 1)
truncate_decade(ts) == AtMidnight(TruncDiv(ts.year, 10) * 10, 1, 1)
truncate_century(ts) == AtMidnight(TruncDiv(ts.year - 1, 100) * 100 + 1, 1, 1)
truncate_millennium(ts) == AtMidnight(TruncDiv(ts.year - 1, 1000) * 1000 + 1, 1, 1)

TruncateUnits ==
    {"micros", "millis", "second", "minute", "hour", "day", "week", "month", "quarter",
     "year", "decade", "century", "millennium"}

\* NaiveDateTimeWrapper::truncate_<unit>
truncate(unit, ts) ==
    CASE unit = "micros" -> truncate_micros(ts)
      [] unit = "millis" -> truncate_millis(ts)
      [] unit = "second" -> truncate_second(ts)
      [] unit = "minute" -> truncate_minute(ts)
      [] unit = "hour" -> truncate_hour(ts)
      [] unit = "day" -> truncate_day(ts)
      [] unit = "week" -> truncate_week(ts)
      [] unit = "month" -> truncate_month(ts)
      [] unit = "quarter" -> truncate_quarter(ts)
      [] unit = "year" -> truncate_year(ts)
      [] unit = "decade" -> truncate_decade(ts)
      [] unit = "century" -> truncate_century(ts)
      [] unit = "millennium" -> truncate_millennium(ts)

\* the timestamps truncated: years of both signs, a time of day with every
\* field set, and the leap second chrono stores as nano >= 10^9
TruncYears == {-1001, -11, -5, 0, 1, 1999, 2000, 2001}
TruncDates ==
    {d \in [year : TruncYears, month : {1, 5, 12}, day : {1, 16, 31}] :
        from_ymd_opt(d.year, d.month, d.day) # None}
TruncTimes == {<<0, 0>>, <<74320, 123456789>>, <<86399, 1999999999>>}

\* truncate_<unit> is applied to the timestamp
Truncate(unit) ==
    /\ calc.op = "none"
    /\ calc' = [calc EXCEPT !.op = unit, !.result = truncate(unit, calc.self)]
    /\ UNCHANGED <<other_vars, reader>>

\* and once more to its own result
TruncateAgain ==
    /\ calc.op \in TruncateUnits
    /\ calc.other = <<>>
    /\ calc' = [calc EXCEPT !.other = <<truncate(calc.op, calc.result)>>]
    /\ UNCHANGED <<other_vars, reader>>

InitTruncate ==
    /\ \E date \in TruncDates, time \in TruncTimes :
          calc = [op |-> "none", self |-> NaiveDateTime(date, time[1], time[2]),
                  other |-> <<>>, result |-> <<>>, panic |-> ""]
    /\ reader = <<>>
    /\ NoOther

NextTruncate ==
    \/ \E unit \in TruncateUnits : Truncate(unit)
    \/ TruncateAgain

SpecTruncate == InitTruncate /\ [][NextTruncate]_vars

\* a is not later than b
NotLater(a, b) ==
    \/ DayNumber(a) < DayNumber(b)
    \/ DayNumber(a) = DayNumber(b) /\ a.secs < b.secs
    \/ DayNumber(a) = DayNumber(b) /\ a.secs = b.secs /\ a.nano <= b.nano

\* C40: every truncation returns a timestamp not later than its input, for
\* every year, years <= 0 among them; truncating the result again with the
\* same unit returns it unchanged; and week truncation returns the Monday of
\* the input's week at 00:00:00.
C40_TruncateNotLater ==
    /\ calc.op \in TruncateUnits => NotLater(calc.result, calc.self)
    /\ (calc.op \in TruncateUnits /\ calc.other # <<>>) => calc.other[1] = calc.result
    /\ calc.op = "week" =>
          /\ DaysFromMonday(calc.result) = 0
          /\ calc.result.secs = 0 /\ calc.result.nano = 0
          /\ DayNumber(calc.self) - DayNumber(calc.result) \in 0..6

\* ------------------------------------------------------- Kafka split reader
\* The partition holds the offsets 0..LogEnd-1 and the consumer delivers them
\* in order from the assigned position, in batches of up to MAX_CHUNK_SIZE.
\* A delivered item is Ok(offset) or a consumer error.
KafkaOk(offset) == [offset |-> offset, err |-> FALSE]
KafkaErr(offset) == [offset |-> offset, err |-> TRUE]
KAFKA_ERROR == "KafkaError"

\* KafkaSplitReader::new for the one split of the state: the position the
\* consumer is assigned and the stop offset kept
KafkaSplitReader_new(split) ==
    [assigned |-> IF split.start_offset # None THEN Unwrap(split.start_offset) + 1
                  ELSE 0,
     stop_offset |-> split.stop_offset]

RECURSIVE KafkaBatch(_, _, _)
\* the inner loop of into_stream over the rest of a batch, res collected so
\* far: [yield, done, err]; an error ends the stream and yields nothing
KafkaBatch(stop_offset, msgs, res) ==
    IF msgs = <<>> THEN [yield |-> <<res>>, done |-> FALSE, err |-> ""]
    ELSE IF Head(msgs).err THEN [yield |-> <<>>, done |-> TRUE, err |-> KAFKA_ERROR]
    ELSE IF stop_offset # None /\ Head(msgs).offset >= Unwrap(stop_offset)
         THEN [yield |-> <<res>>, done |-> TRUE, err |-> ""]
    ELSE KafkaBatch(stop_offset, Tail(msgs), Append(res, Head(msgs).offset))

RECURSIVE KafkaBatchInclusive(_, _, _)
\* the same loop stopping only after the stop offset itself
KafkaBatchInclusive(stop_offset, msgs, res) ==
    IF msgs = <<>> THEN [yield |-> <<res>>, done |-> FALSE, err |-> ""]
    ELSE IF Head(msgs).err THEN [yield |-> <<>>, done |-> TRUE, err |-> KAFKA_ERROR]
    ELSE IF stop_offset # None /\ Head(msgs).offset > Unwrap(stop_offset)
         THEN [yield |-> <<res>>, done |-> TRUE, err |-> ""]
    ELSE KafkaBatchInclusive(stop_offset, Tail(msgs), Append(res, Head(msgs).offset))

KafkaSplitReader_into_stream_inclusive(stop_offset, msgs) ==
    KafkaBatchInclusive(stop_offset, msgs, <<>>)

\* KafkaSplitReader::into_stream: one iteration of the outer loop
KafkaSplitReader_into_stream(stop_offset, msgs) == KafkaBatch(stop_offset, msgs, <<>>)

\* the splits read: with and without a start and a stop offset
KafkaSplits == [start_offset : {None, Some(0), Some(1)},
                stop_offset : {None, Some(0), Some(2), Some(3)}]

\* KafkaSplitReader::new
KafkaNew ==
    /\ reader.phase = "new"
    /\ \E r \in {KafkaSplitReader_new(reader.split)} :
          reader' = [reader EXCEPT !.phase = "stream", !.assigned = r.assigned,
                                  !.next = r.assigned, !.stop_offset = r.stop_offset]
    /\ UNCHANGED <<other_vars, calc>>

\* the consumer has n more items ready, the one at position bad (if any) an
\* error: the outer loop of into_stream runs once
KafkaPoll(n, bad) ==
    /\ reader.phase = "stream"
    /\ reader.next + n <= LogEnd
    /\ \E msgs \in {[i \in 1..n |-> IF i = bad THEN KafkaErr(reader.next + i - 1)
                                     ELSE KafkaOk(reader.next + i - 1)]} :
       \E r \in {KafkaSplitReader_into_stream(reader.stop_offset, msgs)} :
          reader' = [reader EXCEPT !.phase = IF r.done THEN "done" ELSE "stream",
                                  !.next = reader.next + n,
                                  !.batch = msgs,
                                  !.yielded = reader.yielded \o r.yield,
                                  !.err = r.err]
    /\ UNCHANGED <<other_vars, calc>>

InitKafka ==
    /\ \E split \in KafkaSplits :
          reader = [phase |-> "new", split |-> split, assigned |-> 0, next |-> 0,
                    stop_offset |-> None, batch |-> <<>>, yielded |-> <<>>, err |-> ""]
    /\ calc = <<>>
    /\ NoOther

NextKafka ==
    \/ KafkaNew
    \/ \E n \in 1..MAX_CHUNK_SIZE, bad \in 0..MAX_CHUNK_SIZE : KafkaPoll(n, bad)

SpecKafka == InitKafka /\ [][NextKafka]_vars

RECURSIVE Flatten(_)
Flatten(batches) == IF batches = <<>> THEN <<>> ELSE Head(batches) \o Flatten(Tail(batches))

\* the offsets of the error-free items of a batch that precede its first item
\* at or past the stop offset
BeforeStop(msgs, stop) ==
    LET first == IF \E i \in 1..Len(msgs) : msgs[i].offset >= stop
                 THEN CHOOSE i \in 1..Len(msgs) :
                        msgs[i].offset >= stop /\ \A j \in 1..(i - 1) : msgs[j].offset < stop
                 ELSE Len(msgs) + 1
    IN  [i \in 1..(first - 1) |-> msgs[i].offset]

\* C38: with a stop offset the stream never yields a message at or past it;
\* the batch in which the first such message arrives yields the messages
\* collected before it, in arrival order, and the stream terminates and
\* yields nothing afterwards; with a start offset o the consumer is assigned
\* to begin at o + 1.
C38_StopOffset ==
    /\ [](reader.phase # "new" =>
            /\ reader.split.stop_offset # None =>
                  \A i \in 1..Len(Flatten(reader.yielded)) :
                      Flatten(reader.yielded)[i] < Unwrap(reader.split.stop_offset)
            /\ \A i \in 1..Len(Flatten(reader.yielded)) :
                  Flatten(reader.yielded)[i] = reader.assigned + i - 1
            /\ reader.split.start_offset # None =>
                  reader.assigned = Unwrap(reader.split.start_offset) + 1)
    /\ [][/\ reader.phase = "done" => reader' = reader
          /\ (/\ reader.phase = "stream"
              /\ reader'.batch # reader.batch \/ reader'.next # reader.next
              /\ reader.split.stop_offset # None
              /\ \A i \in 1..Len(reader'.batch) : ~reader'.batch[i].err
              /\ \E i \in 1..Len(reader'.batch) :
                    reader'.batch[i].offset >= Unwrap(reader.split.stop_offset))
                => /\ reader'.yielded = Append(reader.yielded,
                          BeforeStop(reader'.batch, Unwrap(reader.split.stop_offset)))
                   /\ reader'.phase = "done"
       ]_vars

\* a split with start offset 0 and stop offset 3: the batch <<1, 2>> was
\* yielded, then offset 3 arrived first in its batch, an empty batch was
\* yielded and the stream ended
C38_Witness ==
    /\ reader.phase = "done" /\ reader.err = ""
    /\ reader.split = [start_offset |-> Some(0), stop_offset |-> Some(3)]
    /\ reader.assigned = 1
    /\ reader.yielded = <<<<1, 2>>, <<>>>>

\* ------------------------------------------------------- connector source
\* A SourceMessage is [split_id, offset, payload]; the payload is None or
\* Some(content), and the parser fails on the content UNPARSABLE.
UNPARSABLE == "unparsable"
SourceMessage(split_id, offset, payload) ==
    [split_id |-> split_id, offset |-> offset, payload |-> payload]

\* parser.parse(content, builder.row_writer()): the row written, or an error
parse(content) ==
    IF content = UNPARSABLE THEN [ok |-> FALSE, row |-> <<>>]
    ELSE [ok |-> TRUE, row |-> <<Some(content)>>]

\* HashMap::insert
MapInsert(map, k, v) == [x \in (DOMAIN map) \cup {k} |-> IF x = k THEN v ELSE map[x]]

RECURSIVE ConnectorBatch(_, _, _)
\* the loop `for msg in batch` over the rest of the batch: the rows of the
\* builder and the split_offset_mapping so far
ConnectorBatch(batch, rows, split_offset_mapping) ==
    IF batch = <<>>
    THEN [chunk |-> rows, split_offset_mapping |-> split_offset_mapping]
    ELSE IF Head(batch).payload = None
         THEN ConnectorBatch(Tail(batch), rows, split_offset_mapping)
    ELSE ConnectorBatch(Tail(batch),
            IF parse(Unwrap(Head(batch).payload)).ok
            THEN Append(rows, parse(Unwrap(Head(batch).payload)).row)
            ELSE rows,
            MapInsert(split_offset_mapping, Head(batch).split_id, Head(batch).offset))

RECURSIVE ConnectorBatchParsedOnly(_, _, _)
\* the same loop recording the offset only of a message that parsed
ConnectorBatchParsedOnly(batch, rows, split_offset_mapping) ==
    IF batch = <<>>
    THEN [chunk |-> rows, split_offset_mapping |-> split_offset_mapping]
    ELSE IF Head(batch).payload = None \/ ~parse(Unwrap(Head(batch).payload)).ok
         THEN ConnectorBatchParsedOnly(Tail(batch), rows, split_offset_mapping)
    ELSE ConnectorBatchParsedOnly(Tail(batch),
            Append(rows, parse(Unwrap(Head(batch).payload)).row),
            MapInsert(split_offset_mapping, Head(batch).split_id, Head(batch).offset))

ConnectorSourceReader_into_stream_parsed_only(batch) ==
    ConnectorBatchParsedOnly(batch, <<>>, <<>>)

\* ConnectorSourceReader::into_stream: the StreamChunkWithState of one batch
ConnectorSourceReader_into_stream(batch) == ConnectorBatch(batch, <<>>, <<>>)

\* the messages and batches of the model
SourceMessages ==
    {SourceMessage(s, o, c) : s \in {1, 2}, o \in {10, 11},
                              c \in {None, Some("a"), Some("b"), Some(UNPARSABLE)}}
SourceBatches ==
    {<<>>} \cup {<<a>> : a \in SourceMessages}
           \cup {<<a, b>> : a \in SourceMessages, b \in SourceMessages}

\* the stream delivers Ok(batch): one iteration of the loop
Consume(batch) ==
    /\ reader.phase = "stream"
    /\ reader.consumed < MaxBatches
    /\ \E r \in {ConnectorSourceReader_into_stream(batch)} :
          reader' = [reader EXCEPT !.consumed = @ + 1, !.batch = batch,
                                  !.yielded = @ + 1, !.last = <<r>>]
    /\ UNCHANGED <<other_vars, calc>>

\* the stream delivers Err: `batch?` ends the stream with the error
ConsumeErr ==
    /\ reader.phase = "stream"
    /\ reader.consumed < MaxBatches
    /\ reader' = [reader EXCEPT !.phase = "failed", !.consumed = @ + 1,
                                !.err = "RwError"]
    /\ UNCHANGED <<other_vars, calc>>

InitConnector ==
    /\ reader = [phase |-> "stream", consumed |-> 0, batch |-> <<>>, yielded |-> 0,
                 last |-> <<>>, err |-> ""]
    /\ calc = <<>>
    /\ NoOther

NextConnector ==
    \/ \E batch \in SourceBatches : Consume(batch)
    \/ ConsumeErr

SpecConnector == InitConnector /\ [][NextConnector]_vars

\* positions of the messages of a batch that carry a payload, for one split
WithPayload(batch, split_id) ==
    {i \in 1..Len(batch) : batch[i].split_id = split_id /\ batch[i].payload # None}
Max(S) == CHOOSE x \in S : \A y \in S : y <= x

\* positions of the messages whose payload parses
Parsed(batch) ==
    {i \in 1..Len(batch) : batch[i].payload # None /\ Unwrap(batch[i].payload) # UNPARSABLE}

\* C39: every batch consumed yields exactly one chunk; its
\* split_offset_mapping holds, for each split with a message carrying a
\* payload in the batch, the offset of the last such message, whether or not
\* the payload parsed, and no other split; the chunk holds the rows of the
\* payloads that parsed, in order; a payload that fails to parse does not
\* fail the stream.
C39_OneChunkPerBatch ==
    /\ [](reader.last # <<>> =>
            /\ DOMAIN reader.last[1].split_offset_mapping =
                  {s \in {1, 2} : WithPayload(reader.batch, s) # {}}
            /\ \A s \in DOMAIN reader.last[1].split_offset_mapping :
                  reader.last[1].split_offset_mapping[s] =
                      reader.batch[Max(WithPayload(reader.batch, s))].offset
            /\ Len(reader.last[1].chunk) = Cardinality(Parsed(reader.batch))
            /\ \A i \in Parsed(reader.batch) :
                  reader.last[1].chunk[Cardinality({j \in Parsed(reader.batch) : j <= i})]
                      = <<reader.batch[i].payload>>)
    /\ [][/\ (reader'.consumed # reader.consumed /\ reader'.err = "")
                => reader'.yielded = reader.yielded + 1 /\ reader'.phase = "stream"
          /\ reader'.batch # reader.batch => reader'.err = "" /\ reader'.last # <<>>
       ]_vars
    /\ [](reader.err = "" => reader.yielded = reader.consumed)

\* a batch of an unparsable message of split 1 at offset 11 after a parsed
\* one at offset 10: one row, and 11 recorded for the split
C39_Witness ==
    /\ reader.batch = <<SourceMessage(1, 10, Some("a")), SourceMessage(1, 11, Some(UNPARSABLE))>>
    /\ reader.last # <<>>
    /\ reader.last[1].chunk = << <<Some("a")>> >>
    /\ reader.last[1].split_offset_mapping[1] = 11
    /\ reader.yielded = 2

\* ------------------------------------------------------- cache coherence
\* the pks a resident entry for key holds / the pks of the rows visible in
\* the state table under key
CachedPks(h, key) == DOMAIN h.inner[key][1]
VisiblePks(h, key) == {PkOf(r) : r \in StoredUnder(h.state, key)}

\* C33: in every state of a JoinHashMap whose owner has not aborted, each
\* resident cache entry for a join key holds exactly the pks of the rows
\* visible in the state table under that key, after any sequence of
\* take_state, update_state, insert, insert_row, delete, delete_row and flush,
\* an insert between a take_state that missed and its update_state among them.
C33_CacheCoherent ==
    panic = "" =>
        \A key \in DOMAIN hm.inner :
            SlotResident(hm, key) => CachedPks(hm, key) = VisiblePks(hm, key)

\* ------------------------------------------------------- tables in step
\* C34: the state table and the degree table of a JoinHashMap stand at the
\* same epoch and the same vnode bitmap after any sequence of flush and
\* update_vnode_bitmap calls, a flush that returns a storage error from
\* either commit among them: never has one table advanced to the next epoch
\* while the other remains on the previous one.
C34_TablesInStep ==
    hm # <<>> =>
        /\ hm.state.epoch = hm.degree_state.epoch
        /\ hm.state.vnodes = hm.degree_state.vnodes

\* ------------------------------------------------------- split round trip
\* The splits a source executor snapshots and recovers are SplitImpl values,
\* whose encode_to_bytes is the text of a JSON document: well-formed UTF-8,
\* one byte per character below 128 in the model.  restore_from_bytes is the
\* inverse of encode_to_bytes, so the split recovered is given by the bytes
\* it is restored from.
SplitImplEncoded == {<<97>>, <<98>>}
SplitImpls == {Split(id, encoded) : id \in SplitIds, encoded \in SplitImplEncoded}
SplitImplLists ==
    {<<>>} \cup {<<s>> : s \in SplitImpls} \cup {<<s1, s2>> : s1, s2 \in SplitImpls}

NextSplitImpl ==
    \/ \E states \in SplitImplLists : \E fail_at \in 0..Len(states) :
          TakeSnapshot(states, fail_at)
    \/ \E outcome \in {"ok", "failed"} : StateStoreCommit(outcome)
    \/ \E id \in SplitIds : TryRecover(id)

SpecSplitImpl == InitSource /\ [][NextSplitImpl]_vars

\* what try_recover_from_state_store answers for each split id
Recoverable(h) == [id \in SplitIds |-> try_recover_from_state_store(h, id)]

RowsFor(h, id) == {r \in TableView(h.state_store) : r[1] = Some(id)}
CommittedFor(h, id) == {r \in h.state_store.committed : r[1] = Some(id)}

\* C36: set buffers an insert when the table shows no row for the split id
\* and an update of the row it shows otherwise, also for an id set earlier
\* in the same call or the same epoch; so the table never holds more than
\* one row per split id, and after a take_snapshot the row of each id in the
\* list carries the id's latest state in the list while the rows of the
\* other ids are as before; a commit changes no row.
C36_SetIsUpsert ==
    /\ [](\A id \in SplitIds :
            Cardinality(RowsFor(handler, id)) <= 1 /\ Cardinality(CommittedFor(handler, id)) <= 1)
    /\ [][/\ StepOf("take_snapshot") =>
              /\ \A i \in 1..Len(last'.arg.wrote) :
                    last'.arg.wrote[i] =
                        IF \/ RowsFor(handler, last'.arg.states[i].id) # {}
                           \/ \E j \in 1..(i - 1) :
                                 last'.arg.states[j].id = last'.arg.states[i].id
                        THEN "update" ELSE "insert"
              /\ \A id \in SplitIds :
                    RowsFor(handler', id) =
                        IF \E i \in 1..Len(last'.arg.wrote) : last'.arg.states[i].id = id
                        THEN {<<Some(id),
                                Some(last'.arg.states[
                                    Max({i \in 1..Len(last'.arg.wrote) :
                                            last'.arg.states[i].id = id})].encoded)>>}
                        ELSE RowsFor(handler, id)
          /\ Done("commit") =>
              \A id \in SplitIds :
                  RowsFor(handler', id) = RowsFor(handler, id)
                      /\ CommittedFor(handler', id) = RowsFor(handler, id)
       ]_vars

\* a split id committed with one state has been set twice more in one call
\* of the next epoch: both sets were updates and the one row carries the last
C36_Witness ==
    /\ last.op = "take_snapshot" /\ panic = ""
    /\ last.arg.states = <<Split(1, <<98>>), Split(1, <<97>>)>>
    /\ last.arg.wrote = <<"update", "update">>
    /\ handler.state_store.epoch = 1
    /\ CommittedFor(handler, 1) = {<<Some(1), Some(<<98>>)>>}
    /\ RowsFor(handler, 1) = {<<Some(1), Some(<<97>>)>>}

\* ------------------------------------------------------- snapshot errors
\* C37: take_snapshot of an empty list returns the error 'states require not
\* null' and buffers no write; of a non-empty list it returns Ok exactly
\* when no set met a storage error, every state then having been set; a
\* storage error met while setting the i-th state is returned to the caller,
\* the states before the i-th having been set and none from the i-th on.
C37_SnapshotErrors ==
    [][StepOf("take_snapshot") =>
          IF last'.arg.states = <<>>
          THEN /\ panic' = STATES_EMPTY
               /\ handler' = handler
               /\ last'.arg.wrote = <<>>
          ELSE IF last'.arg.fail_at = 0
          THEN /\ panic' = ""
               /\ Len(last'.arg.wrote) = Len(last'.arg.states)
          ELSE /\ panic' = STORAGE_ERROR
               /\ Len(last'.arg.wrote) = last'.arg.fail_at - 1
               /\ \A id \in SplitIds :
                     (\A i \in 1..(last'.arg.fail_at - 1) : last'.arg.states[i].id # id)
                         => RowsFor(handler', id) = RowsFor(handler, id)
    ]_vars

\* the second of two states met a storage error: the error was returned with
\* the first state set and the second not
C37_Witness ==
    /\ last.op = "take_snapshot" /\ panic = STORAGE_ERROR
    /\ last.arg.states = <<Split(1, <<97>>), Split(2, <<97>>)>>
    /\ last.arg.fail_at = 2
    /\ last.arg.wrote = <<"insert">>
    /\ RowsFor(handler, 1) # {} /\ RowsFor(handler, 2) = {}

====
